---- MODULE Spec2Model ----
(***************************************************************************)
(* A model of the YK Dynasty trade pipeline:                               *)
(*   scripts/load_trade_csvs.py      reconcile + rebuild of trades.json    *)
(*   scripts/track_pick_outcomes.py  pick ledger                           *)
(*   scripts/compute_trade_windows.py, scripts/grade_trades.py  grading    *)
(*   scripts/combine_trade_grades.py combined grades                       *)
(*                                                                         *)
(* Numbers with one decimal (FPts/game, deltas, GPAs) are integers in      *)
(* tenths; combined GPAs are integers in hundredths.  Player names are     *)
(* sequences of one-character strings.  None is the Python None.           *)
(***************************************************************************)
EXTENDS Integers, Sequences, FiniteSets, TLC

VARIABLES
    pc,            \* position of the running script
    csv_trades,    \* load_all_csvs(): the Fantrax CSV trade groups
    trades_json,   \* docs/data/trades.json as read by the running script
    recon,         \* what reconcile() returned
    final_trades,  \* final_trades of load_trade_csvs.main, as written
    attribution,   \* per matched pair, the CSV rows its output trade took
    pick_trades,   \* pick_trades of track_pick_outcomes.main (step 1)
    ledger,        \* ledger of track_pick_outcomes.main: pick_id -> entry
    picks_json,    \* docs/data/picks.json, flattened in iteration order
    scoring,       \* <<player, season>> -> FPts/game in tenths, where known
    grader,        \* the script that wrote trade_grades.json
    trade_grades,  \* docs/data/trade_grades.json: the graded trades
    combined,      \* per trade, what combine_trade_grades adds to its sides
    calls,         \* arguments and results of the scale and alias functions
    disk           \* the artifact file a script rewrites, as stored

reconVars == <<csv_trades, recon, final_trades, attribution>>
pickVars == <<pick_trades, ledger, picks_json>>
gradeVars == <<scoring, grader, trade_grades>>
auxVars == <<calls, disk>>
vars == <<pc, trades_json, reconVars, pickVars, gradeVars, combined, auxVars>>

None == "None"
NoDate == 0        \* a date that is None or absent; dates are integers yyyymmdd

\* ------------------------------------------------------------------ bounds
MaxExcel == 2      \* trades in the incoming trades.json
MaxCsv == 1        \* Fantrax CSV trade groups

\* ------------------------------------------------------------- generic helpers
Max2(a, b) == IF a >= b THEN a ELSE b
SetMax(S) == CHOOSE x \in S : \A y \in S : y <= x
SetMin(S) == CHOOSE x \in S : \A y \in S : x <= y
SeqsUpTo(S, n) == UNION {[1..k -> S] : k \in 0..n}
Range(s) == {s[k] : k \in DOMAIN s}

RECURSIVE SumSeq(_)
SumSeq(s) == IF s = <<>> THEN 0 ELSE s[1] + SumSeq(Tail(s))

\* the multiset of the elements of a sequence
BagOf(s) == [x \in Range(s) |-> Cardinality({k \in DOMAIN s : s[k] = x})]

\* ------------------------------------------------- load_trade_csvs.py: tables
\* ABBREV_TO_OWNER, restricted to the abbreviations the model's inputs use
ABBREV_TO_OWNER ==
    [a \in {"BADEN", "VLAD", "KELL", "GOLD", "BERK"} |->
        CASE a = "BADEN" -> "Baden"
          [] a = "VLAD"  -> "Baden"
          [] a = "KELL"  -> "Baden"
          [] a = "GOLD"  -> "Gold"
          [] a = "BERK"  -> "Berke"]

get_abbrev_for_owner(owner) ==
    CASE owner = "Baden" -> "BADEN"
      [] owner = "Berke" -> "BERK"
      [] owner = "Gold"  -> "GOLD"
      [] owner = "Peterson" -> "PETE"
      [] OTHER -> "UNKN"

\* SEASON_ORDER of main's sort_key (and of the graders)
SEASON_ORDER == <<"2020-21", "2021-22", "2022-23", "2023-24", "2024-25", "2025-26">>

SeasonIndex(s) ==
    IF \E k \in DOMAIN SEASON_ORDER : SEASON_ORDER[k] = s
    THEN (CHOOSE k \in DOMAIN SEASON_ORDER : SEASON_ORDER[k] = s) - 1
    ELSE 99

\* ------------------------------------------------- normalize / fuzzy matching
Lower(c) ==
    CASE c = "A" -> "a"
      [] c = "J" -> "j"
      [] OTHER -> c

RECURSIVE DropChars(_, _)
DropChars(s, D) ==
    IF s = <<>> THEN <<>>
    ELSE IF s[1] \in D THEN DropChars(Tail(s), D)
    ELSE <<s[1]>> \o DropChars(Tail(s), D)

RECURSIVE Strip(_)
Strip(s) ==
    IF s = <<>> THEN s
    ELSE IF s[1] = " " THEN Strip(Tail(s))
    ELSE IF s[Len(s)] = " " THEN Strip(SubSeq(s, 1, Len(s) - 1))
    ELSE s

EndsWith(s, suf) ==
    Len(s) >= Len(suf) /\ SubSeq(s, Len(s) - Len(suf) + 1, Len(s)) = suf

Suffixes == << <<" ", "j", "r">>, <<" ", "i", "i", "i">>, <<" ", "i", "i">>,
               <<" ", "i", "v">>, <<" ", "s", "r">> >>

RECURSIVE StripSuffixes(_, _)
StripSuffixes(s, k) ==
    IF k > Len(Suffixes) THEN s
    ELSE IF EndsWith(s, Suffixes[k])
         THEN StripSuffixes(SubSeq(s, 1, Len(s) - Len(Suffixes[k])), k + 1)
         ELSE StripSuffixes(s, k + 1)

\* normalize(name): lower-case, drop "." and "'", strip one trailing suffix of
\* each kind in the order of the list, strip blanks
normalize(name) ==
    Strip(StripSuffixes(
        DropChars(Strip([k \in DOMAIN name |-> Lower(name[k])]), {".", "'"}), 1))

\* difflib.SequenceMatcher (no junk): length of the common run at a[i], b[j]
RECURSIVE RunLen(_, _, _, _, _, _)
RunLen(a, i, ahi, b, j, bhi) ==
    IF i > ahi \/ j > bhi THEN 0
    ELSE IF a[i] # b[j] THEN 0
    ELSE 1 + RunLen(a, i + 1, ahi, b, j + 1, bhi)

\* find_longest_match: the longest block, earliest in a, then earliest in b
FindLongestMatch(a, alo, ahi, b, blo, bhi) ==
    LET k == SetMax({RunLen(a, i, ahi, b, j, bhi) :
                        <<i, j>> \in (alo..ahi) \X (blo..bhi)} \cup {0})
        bi == SetMin({i \in alo..ahi :
                        \E j \in blo..bhi : RunLen(a, i, ahi, b, j, bhi) = k})
        bj == SetMin({j \in blo..bhi : RunLen(a, bi, ahi, b, j, bhi) = k})
    IN  IF k = 0 THEN <<alo, blo, 0>> ELSE <<bi, bj, k>>

\* get_matching_blocks: total size of the blocks
RECURSIVE MatchingCount(_, _, _, _, _, _)
MatchingCount(a, alo, ahi, b, blo, bhi) ==
    IF alo > ahi \/ blo > bhi THEN 0
    ELSE LET m == FindLongestMatch(a, alo, ahi, b, blo, bhi)
         IN  IF m[3] = 0 THEN 0
             ELSE m[3]
                  + MatchingCount(a, alo, m[1] - 1, b, blo, m[2] - 1)
                  + MatchingCount(a, m[1] + m[3], ahi, b, m[2] + m[3], bhi)

\* ratio() >= pct/100, with ratio() = 2*M/T (1.0 when both are empty)
RatioAtLeast(a, b, pct) ==
    IF Len(a) + Len(b) = 0 THEN TRUE
    ELSE 200 * MatchingCount(a, 1, Len(a), b, 1, Len(b)) >= pct * (Len(a) + Len(b))

FuzzyThreshold == 80

fuzzy_match_name(name_a, name_b) ==
    LET na == normalize(name_a)
        nb == normalize(name_b)
    IN  IF na = nb THEN TRUE ELSE RatioAtLeast(na, nb, FuzzyThreshold)

\* ------------------------------------------------------------ the name universe
NameA  == <<"a", "b", "c", "d">>
NameA2 == <<"A", "b", "c", "d", " ", "J", "r", ".">>   \* another spelling of NameA
NameB  == <<"a", "b", "c", "d", "e">>                  \* another player, similar name
NameC  == <<"w", "x", "y", "z">>
PlayerNames == {NameA, NameA2, NameB, NameC}

\* fuzzy_match_name over the name universe, computed once
FuzzyTable == [p \in PlayerNames \X PlayerNames |-> fuzzy_match_name(p[1], p[2])]
Fuzzy(a, b) == FuzzyTable[<<a, b>>]


\* ------------------------------------------------------------- trades.json
\* A trade item "<ABBREV> <asset>": a player (the asset is the name) or a pick
\* (the asset is a description; orig, year, round and swap are the words of it
\* that the pick parsers read).
PlayerItem(abbr, name) ==
    [abbr |-> abbr, pick |-> FALSE, name |-> name,
     orig |-> "", year |-> 0, round |-> 0, swap |-> FALSE]
PickItem(abbr, orig, year, round, swap) ==
    [abbr |-> abbr, pick |-> TRUE, name |-> <<>>,
     orig |-> orig, year |-> year, round |-> round, swap |-> swap]

\* is_pick_excel(item): the regular expression matches the pick descriptions
\* and no player name of the universe
is_pick_excel(item) == item.pick

\* a trades.json entry; a key the file does not hold reads as FALSE / None
TradeEntry(season, date, give, get, confirmed, review, source) ==
    [season |-> season, date |-> date, give |-> give, get |-> get,
     fantrax_confirmed |-> confirmed, needs_review |-> review, source |-> source]

\* ---------------------------------------------- parse_existing_trades (271-336)
RECURSIVE FirstOwner(_)
FirstOwner(items) ==
    IF items = <<>> THEN None
    ELSE IF items[1].abbr \in DOMAIN ABBREV_TO_OWNER
         THEN ABBREV_TO_OWNER[items[1].abbr]
         ELSE FirstOwner(Tail(items))

RECURSIVE extract_players(_)
extract_players(items) ==
    IF items = <<>> THEN <<>>
    ELSE IF is_pick_excel(items[1]) THEN extract_players(Tail(items))
    ELSE <<items[1].name>> \o extract_players(Tail(items))

RECURSIVE extract_picks(_)
extract_picks(items) ==
    IF items = <<>> THEN <<>>
    ELSE IF is_pick_excel(items[1]) THEN <<items[1]>> \o extract_picks(Tail(items))
    ELSE extract_picks(Tail(items))

OrUnknown(o) == IF o = None THEN "Unknown" ELSE o

parse_existing_trades(trades) ==
    [i \in DOMAIN trades |->
        [index |-> i - 1,
         season |-> trades[i].season,
         date |-> trades[i].date,
         owner_a |-> OrUnknown(FirstOwner(trades[i].give)),
         owner_b |-> OrUnknown(FirstOwner(trades[i].get)),
         give_players |-> extract_players(trades[i].give),
         give_picks |-> extract_picks(trades[i].give),
         get_players |-> extract_players(trades[i].get),
         get_picks |-> extract_picks(trades[i].get),
         raw |-> trades[i]]]

\* ------------------------------------------------------- reconcile (340-400)
\* Overlap counting a trade that shares any player as one shared player
Overlap_AnyShared(excel_all_players, csv_all_players) ==
    IF \E k \in DOMAIN excel_all_players :
        \E m \in DOMAIN csv_all_players :
            Fuzzy(excel_all_players[k], csv_all_players[m])
    THEN 1 ELSE 0
\* lines 377-383: how many Excel players appear in the CSV group
Overlap(excel_all_players, csv_all_players) ==
    Cardinality({k \in DOMAIN excel_all_players :
        \E m \in DOMAIN csv_all_players :
            Fuzzy(excel_all_players[k], csv_all_players[m])})

\* lines 362-387: the scan over the CSV groups, keeping the first best overlap
RECURSIVE BestScan(_, _, _, _)
BestScan(csvs, et, ci, best) ==
    IF ci > Len(csvs) THEN best
    ELSE LET ct == csvs[ci]
             csv_all == ct.side_a_players \o ct.side_b_players
             ov == Overlap(et.give_players \o et.get_players, csv_all)
         IN  IF ct.season # et.season THEN BestScan(csvs, et, ci + 1, best)
             ELSE IF {ct.owner_a, ct.owner_b} # {et.owner_a, et.owner_b}
                  THEN BestScan(csvs, et, ci + 1, best)
             ELSE IF csv_all = <<>> THEN BestScan(csvs, et, ci + 1, best)
             ELSE IF ov > best.overlap
                  THEN BestScan(csvs, et, ci + 1, [csv |-> ci, overlap |-> ov])
             ELSE BestScan(csvs, et, ci + 1, best)

\* lines 352-392: one pass over the Excel trades
RECURSIVE ReconcileLoop(_, _, _, _)
ReconcileLoop(csvs, excel, ei, acc) ==
    IF ei > Len(excel) THEN acc
    ELSE LET et == excel[ei]
             best == BestScan(csvs, et, 1, [csv |-> 0, overlap |-> 0])
         IN  IF et.give_players \o et.get_players = <<>>
             THEN ReconcileLoop(csvs, excel, ei + 1, acc)
             ELSE IF best.csv # 0 /\ best.overlap > 0
             THEN ReconcileLoop(csvs, excel, ei + 1,
                    [matched |-> Append(acc.matched, <<best.csv, ei>>),
                     csv_used_for |-> [acc.csv_used_for EXCEPT
                                        ![best.csv] = Append(@, ei)],
                     excel_unmatched |-> acc.excel_unmatched \ {ei}])
             ELSE ReconcileLoop(csvs, excel, ei + 1, acc)

reconcile(csvs, excel) ==
    LET r == ReconcileLoop(csvs, excel, 1,
                [matched |-> <<>>,
                 csv_used_for |-> [ci \in DOMAIN csvs |-> <<>>],
                 excel_unmatched |-> DOMAIN excel])
    IN  [matched |-> r.matched,
         csv_used_for |-> r.csv_used_for,
         excel_unmatched |-> r.excel_unmatched,
         csv_unmatched |-> {ci \in DOMAIN csvs : r.csv_used_for[ci] = <<>>}]


\* ------------------------------------------- main: rebuild of trades.json (529-704)
RECURSIVE SortedSeq(_)
SortedSeq(S) ==
    IF S = {} THEN <<>> ELSE <<SetMin(S)>> \o SortedSeq(S \ {SetMin(S)})

RECURSIVE SelectIdx(_, _, _)
SelectIdx(s, keep, k) ==
    IF k > Len(s) THEN <<>>
    ELSE IF k \in keep THEN <<s[k]>> \o SelectIdx(s, keep, k + 1)
    ELSE SelectIdx(s, keep, k + 1)

csv_seasons(csvs) == {csvs[k].season : k \in DOMAIN csvs} \ {None}

InScope(excel, csvs) == SelectSeq(excel, LAMBDA t : t.season \in csv_seasons(csvs))
OutOfScope(excel, csvs) == SelectSeq(excel, LAMBDA t : t.season \notin csv_seasons(csvs))

\* lines 572-589: each Excel player takes the first unused CSV player it matches
RECURSIVE GreedyUsed(_, _, _, _)
GreedyUsed(eps, cps, k, used) ==
    IF k > Len(eps) THEN used
    ELSE LET free == {m \in DOMAIN cps : m \notin used /\ Fuzzy(eps[k], cps[m])}
         IN  GreedyUsed(eps, cps, k + 1,
                        IF free = {} THEN used ELSE used \cup {SetMin(free)})

\* lines 602-611: the CSV players the other Excel trades of the group claim
FirstMatch(op, cps) ==
    LET hit == {m \in DOMAIN cps : Fuzzy(op, cps[m])}
    IN  IF hit = {} THEN {} ELSE {SetMin(hit)}

OtherClaimed(other_lists, cps) ==
    UNION {UNION {FirstMatch(l[k], cps) : k \in DOMAIN l} : l \in other_lists}

\* FinalIdx giving every claimant the players no other claimant claims
FinalIdx_Extras(cps, used, other_claimed, n_other, n_claimants) ==
    IF n_claimants = 1 THEN DOMAIN cps
    ELSE {m \in DOMAIN cps : m \in used \/ m \notin other_claimed}
\* lines 615-633: the players of one side of the output trade
FinalIdx(cps, used, other_claimed, n_other, n_claimants) ==
    IF n_claimants = 1 THEN DOMAIN cps
    ELSE {m \in DOMAIN cps :
            \/ m \in used
            \/ (m \notin other_claimed /\ n_other = 0)}

Prefixed(abbr, names) == [k \in DOMAIN names |-> PlayerItem(abbr, names[k])]

\* lines 553-633: the CSV rows (by position in the give-side and get-side
\* lists of the group) that go to the output trade of one matched pair
MatchedRows(csvs, excel, csv_used_for, ci, ei) ==
    LET ct == csvs[ci]
        et == excel[ei]
        aligned == ct.owner_a = et.owner_a
        csv_give_players == IF aligned THEN ct.side_a_players ELSE ct.side_b_players
        csv_get_players == IF aligned THEN ct.side_b_players ELSE ct.side_a_players
        csv_give_used == GreedyUsed(et.give_players, csv_give_players, 1, {})
        csv_get_used == GreedyUsed(et.get_players, csv_get_players, 1, {})
        other_excel_idxs == SelectSeq(csv_used_for[ci], LAMBDA oei : oei # ei)
        other_give == {IF ct.owner_a = excel[oei].owner_a
                       THEN excel[oei].give_players ELSE excel[oei].get_players :
                       oei \in Range(other_excel_idxs)}
        other_get == {IF ct.owner_a = excel[oei].owner_a
                      THEN excel[oei].get_players ELSE excel[oei].give_players :
                      oei \in Range(other_excel_idxs)}
    IN  [ci |-> ci, ei |-> ei,
         give_side |-> IF aligned THEN "a" ELSE "b",
         give_players |-> csv_give_players,
         get_players |-> csv_get_players,
         give_idx |-> FinalIdx(csv_give_players, csv_give_used,
                         OtherClaimed(other_give, csv_give_players),
                         Len(other_excel_idxs), Len(csv_used_for[ci])),
         get_idx |-> FinalIdx(csv_get_players, csv_get_used,
                         OtherClaimed(other_get, csv_get_players),
                         Len(other_excel_idxs), Len(csv_used_for[ci]))]

\* the output trade of one matched pair keeping the Excel trade's own players
MatchedEntry_ExcelPlayers(csvs, excel, csv_used_for, ci, ei) ==
    LET et == excel[ei]
    IN  TradeEntry(et.season, csvs[ci].date,
            Prefixed(get_abbrev_for_owner(et.owner_a), et.give_players) \o et.give_picks,
            Prefixed(get_abbrev_for_owner(et.owner_b), et.get_players) \o et.get_picks,
            TRUE, FALSE, None)

\* lines 636-650: the output trade of one matched pair
MatchedEntry(csvs, excel, csv_used_for, ci, ei) ==
    LET et == excel[ei]
        rows == MatchedRows(csvs, excel, csv_used_for, ci, ei)
    IN  TradeEntry(et.season, csvs[ci].date,
            Prefixed(get_abbrev_for_owner(et.owner_a),
                     SelectIdx(rows.give_players, rows.give_idx, 1)) \o et.give_picks,
            Prefixed(get_abbrev_for_owner(et.owner_b),
                     SelectIdx(rows.get_players, rows.get_idx, 1)) \o et.get_picks,
            TRUE, FALSE, None)

\* an Excel trade no CSV group matched, written without the review flag
ExcelOnlyEntry_NoReview(et) ==
    IF et.give_players = <<>> /\ et.get_players = <<>>
    THEN [et.raw EXCEPT !.source = "excel_only_picks"]
    ELSE [et.raw EXCEPT !.source = "excel_only"]

\* lines 653-662: an Excel trade no CSV group matched
ExcelOnlyEntry(et) ==
    IF et.give_players = <<>> /\ et.get_players = <<>>
    THEN [et.raw EXCEPT !.source = "excel_only_picks"]
    ELSE [et.raw EXCEPT !.source = "excel_only", !.needs_review = TRUE]

\* lines 668-693: a CSV group no Excel trade matched
CsvOnlyEntry(ct) ==
    TradeEntry(ct.season, ct.date,
        Prefixed(get_abbrev_for_owner(ct.owner_a), ct.side_a_players),
        Prefixed(get_abbrev_for_owner(ct.owner_b), ct.side_b_players),
        TRUE, FALSE, "fantrax_csv_only")

CsvIsEmpty(ct) ==
    Len(ct.side_a_players) + Len(ct.side_b_players) = 0
    /\ Len(ct.side_a_picks) + Len(ct.side_b_picks) = 0

\* lines 696-704: sort_key and the stable list.sort
NoDateKey == 99999999
sort_key(t) == <<SeasonIndex(t.season), IF t.date = NoDate THEN NoDateKey ELSE t.date>>
KeyLeq(a, b) == a[1] < b[1] \/ (a[1] = b[1] /\ a[2] <= b[2])

RECURSIVE InsertSorted(_, _)
InsertSorted(sorted, t) ==
    IF sorted = <<>> THEN <<t>>
    ELSE IF KeyLeq(sort_key(sorted[Len(sorted)]), sort_key(t)) THEN Append(sorted, t)
    ELSE Append(InsertSorted(SubSeq(sorted, 1, Len(sorted) - 1), t),
                sorted[Len(sorted)])

RECURSIVE StableSort(_, _)
StableSort(list, acc) ==
    IF list = <<>> THEN acc ELSE StableSort(Tail(list), InsertSorted(acc, list[1]))

\* the unsorted final_trades, in the order main appends them
RebuildList(csvs, trades, r) ==
    LET parsed == parse_existing_trades(trades)
        excel == InScope(parsed, csvs)
        out == OutOfScope(parsed, csvs)
        eo == SortedSeq(r.excel_unmatched)
        co == SelectSeq(SortedSeq(r.csv_unmatched), LAMBDA ci : ~CsvIsEmpty(csvs[ci]))
    IN  [k \in DOMAIN out |-> out[k].raw]
        \o [k \in DOMAIN r.matched |->
              MatchedEntry(csvs, excel, r.csv_used_for, r.matched[k][1], r.matched[k][2])]
        \o [k \in DOMAIN eo |-> ExcelOnlyEntry(excel[eo[k]])]
        \o [k \in DOMAIN co |-> CsvOnlyEntry(csvs[co[k]])]

Rebuild(csvs, trades, r) == StableSort(RebuildList(csvs, trades, r), <<>>)


\* ------------------------------------------------ load_all_csvs (160-267): inputs
\* date_to_season: July and later belong to the season starting that year
SeasonLabel(y) == IF y \in 2020..2025 THEN SEASON_ORDER[y - 2019] ELSE None
date_to_season(d) ==
    IF (d \div 100) % 100 >= 7 THEN SeasonLabel(d \div 10000)
    ELSE SeasonLabel(d \div 10000 - 1)

CsvGroup(date, oa, ob, ap, bp, apk, bpk) ==
    [date |-> date, season |-> date_to_season(date),
     owner_a |-> oa, owner_b |-> ob,
     side_a_players |-> ap, side_b_players |-> bp,
     side_a_picks |-> apk, side_b_picks |-> bpk]

CsvDates == {20231017}

CsvGroupsAll ==
    {CsvGroup(d, o[1], o[2], ap, bp, apk, <<>>) :
        d \in CsvDates,
        o \in {<<"Baden", "Gold">>, <<"Gold", "Baden">>},
        ap \in {<<>>, <<NameA>>, <<NameA, NameB>>},
        bp \in {<<>>, <<NameC>>},
        apk \in {<<>>, <<"Draft Pick">>}}

\* owner_a is the sender of the group's first row, so side a holds a row
CsvGroups ==
    {g \in CsvGroupsAll : g.side_a_players # <<>> \/ g.side_a_picks # <<>>}

\* the incoming trades.json entries: each side holds at least one item
ExcelRawTradesAll ==
    {TradeEntry(season, NoDate,
                Prefixed(o[1], gp)
                    \o (IF gk THEN <<PickItem(o[1], "Baden", 2025, 1, FALSE)>> ELSE <<>>),
                Prefixed(o[2], tp)
                    \o (IF tk THEN <<PickItem(o[2], "Gold", 2026, 2, FALSE)>> ELSE <<>>),
                FALSE, FALSE, None) :
        season \in {"2021-22", "2023-24"},
        o \in {<<"BADEN", "GOLD">>, <<"GOLD", "VLAD">>},
        gp \in {<<>>, <<NameA>>, <<NameB>>},
        tp \in {<<>>, <<NameC>>},
        gk \in BOOLEAN, tk \in BOOLEAN}

ExcelRawTrades == {t \in ExcelRawTradesAll : t.give # <<>> /\ t.get # <<>>}

\* rows sharing (date, team pair) form one group: no two groups share the key
GroupsDistinct(csvs) ==
    \A i, j \in DOMAIN csvs :
        i # j => <<csvs[i].date, {csvs[i].owner_a, csvs[i].owner_b}>>
               # <<csvs[j].date, {csvs[j].owner_a, csvs[j].owner_b}>>

NoRecon == [matched |-> <<>>, csv_used_for |-> <<>>,
            excel_unmatched |-> {}, csv_unmatched |-> {}]

InitReconcile ==
    /\ pc = "start"
    /\ csv_trades \in {c \in SeqsUpTo(CsvGroups, MaxCsv) : GroupsDistinct(c)}
    /\ trades_json \in SeqsUpTo(ExcelRawTrades, MaxExcel)
    /\ recon = NoRecon
    /\ final_trades = <<>>
    /\ attribution = <<>>
    /\ pick_trades = <<>> /\ ledger = <<>> /\ picks_json = <<>>
    /\ scoring = <<>> /\ grader = None /\ trade_grades = <<>>
    /\ combined = <<>>
    /\ calls = <<>> /\ disk = <<>>

\* main, lines 409-429
RunReconcile ==
    /\ pc = "start"
    /\ recon' = reconcile(csv_trades,
                          InScope(parse_existing_trades(trades_json), csv_trades))
    /\ pc' = "reconciled"
    /\ UNCHANGED <<csv_trades, trades_json, final_trades, attribution, pickVars, gradeVars, combined, auxVars>>

\* main, lines 529-765
RunRebuild ==
    /\ pc = "reconciled"
    /\ final_trades' = Rebuild(csv_trades, trades_json, recon)
    /\ attribution' =
         [k \in DOMAIN recon.matched |->
            MatchedRows(csv_trades,
                        InScope(parse_existing_trades(trades_json), csv_trades),
                        recon.csv_used_for, recon.matched[k][1], recon.matched[k][2])]
    /\ pc' = "written"
    /\ UNCHANGED <<csv_trades, trades_json, recon, pickVars, gradeVars, combined, auxVars>>

NextReconcile == RunReconcile \/ RunRebuild

SpecReconcile == InitReconcile /\ [][NextReconcile]_vars


\* ------------------------------------------------------------------ claims
\* the identity of a trade: season, unordered owner pair, give and get multisets
TradeKey(t) ==
    <<t.season, {OrUnknown(FirstOwner(t.give)), OrUnknown(FirstOwner(t.get))},
      BagOf(t.give), BagOf(t.get)>>

\* C1: in the trade list main writes, no two trades have the same (season,
\* unordered owner pair, multiset of give items, multiset of get items).
C1_Uniqueness ==
    pc = "written" =>
        \A i, j \in DOMAIN final_trades :
            i # j => TradeKey(final_trades[i]) # TradeKey(final_trades[j])

\* the rows of CSV group ci that the k-th matched pair's output trade holds
RowsOf(k) ==
    LET r == attribution[k]
    IN  [give |-> {<<r.ci, r.give_side, m>> : m \in r.give_idx},
         get |-> {<<r.ci, IF r.give_side = "a" THEN "b" ELSE "a", m>> : m \in r.get_idx}]

\* C3: no player row of a CSV group is attributed to more than one output
\* trade, and within a trade to one side only.
C3_PlayersPartitioned ==
    pc = "written" =>
        /\ \A k \in DOMAIN attribution : RowsOf(k).give \cap RowsOf(k).get = {}
        /\ \A k1, k2 \in DOMAIN attribution :
              k1 # k2 =>
                (RowsOf(k1).give \cup RowsOf(k1).get)
                    \cap (RowsOf(k2).give \cup RowsOf(k2).get) = {}


\* ===================================================== track_pick_outcomes.py
\* four of the ten canonical owners
CANONICAL_OWNERS == {"Baden", "Berke", "Gold", "Peterson"}

\* the owner tokens of the model and their str.upper() / str.lower()
OwnerTokens ==
    {"BADEN", "VLAD", "KELL", "GOLD", "BERK", "Baden", "Gold", "Berke", "Trager"}
TokUpper(w) ==
    CASE w = "Baden" -> "BADEN" [] w = "Gold" -> "GOLD" [] w = "Berke" -> "BERKE"
      [] w = "Trager" -> "TRAGER" [] OTHER -> w
TokLower(w) ==
    CASE w \in {"BADEN", "Baden"} -> "baden" [] w \in {"GOLD", "Gold"} -> "gold"
      [] w = "Berke" -> "berke" [] w = "BERK" -> "berk" [] w = "VLAD" -> "vlad"
      [] w = "KELL" -> "kell"
      [] w = "Trager" -> "trager" [] OTHER -> w

OWNER_MAP ==
    [a \in {"BADEN", "VLAD", "KELL", "GOLD", "BERK"} |->
        CASE a = "BADEN" -> "Baden"
          [] a = "VLAD"  -> "Baden"
          [] a = "KELL"  -> "Peterson"
          [] a = "GOLD"  -> "Gold"
          [] a = "BERK"  -> "Berke"]
OWNER_NAME_MAP ==
    [a \in {"baden", "gold", "berke", "trager"} |->
        CASE a = "baden"  -> "Baden"
          [] a = "gold"   -> "Gold"
          [] a = "berke"  -> "Berke"
          [] a = "trager" -> "HaleTrager"]

resolve_owner(abbr) ==
    IF TokUpper(abbr) \in DOMAIN OWNER_MAP THEN OWNER_MAP[TokUpper(abbr)]
    ELSE IF TokLower(abbr) \in DOMAIN OWNER_NAME_MAP THEN OWNER_NAME_MAP[TokLower(abbr)]
    ELSE abbr

\* parse_pick_string(text): text is given by the owner words left after the
\* cleaning, in order, the year and the round it names (0: none) and whether
\* it says "swap".  ok = FALSE is the return value None.
NoPick == [ok |-> FALSE, original_owner |-> "", draft_year |-> 0, round |-> 0,
           is_swap |-> FALSE]
parse_pick_string(words, year, round, swap) ==
    LET owners == SelectSeq(words, LAMBDA w : resolve_owner(w) \in CANONICAL_OWNERS)
    IN  IF year = 0 \/ round = 0 \/ owners = <<>> THEN NoPick
        ELSE [ok |-> TRUE, original_owner |-> resolve_owner(owners[1]),
              draft_year |-> year, round |-> round, is_swap |-> swap]

\* the words of a trade item "<ABBREV> [<owner>] <year> <round> round"
ItemWords(item) == <<item.abbr>> \o (IF item.orig = "" THEN <<>> ELSE <<item.orig>>)

is_pick_item(item) == item.pick

\* give_owners / get_owners of a trade (lines 319-332)
SideOwners(items) ==
    {resolve_owner(items[k].abbr) : k \in DOMAIN items} \cap CANONICAL_OWNERS

\* list(owners)[0]: the first element of a set of strings, in the order of
\* the interpreter's string hashing
ToChoices(owners) == IF owners = {} THEN {"Unknown"} ELSE owners

\* the events one side of trade idx adds to pick_trades (lines 335-361, 364-388);
\* the item is parsed whole, owner prefix included
RECURSIVE SideEvents(_, _, _, _)
SideEvents(items, idx, season, to_owner) ==
    IF items = <<>> THEN <<>>
    ELSE LET item == items[1]
             from_owner == resolve_owner(item.abbr)
             pick_info == parse_pick_string(ItemWords(item), item.year,
                                            item.round, item.swap)
             rest == SideEvents(Tail(items), idx, season, to_owner)
         IN  IF is_pick_item(item) /\ from_owner \in CANONICAL_OWNERS /\ pick_info.ok
             THEN <<[trade_index |-> idx, season |-> season, from |-> from_owner,
                     to |-> to_owner, pick |-> pick_info, raw |-> item]>> \o rest
             ELSE rest

\* step 1 (lines 309-390): every list pick_trades can be
RECURSIVE PickTradeLists(_, _)
PickTradeLists(trades, k) ==
    IF k > Len(trades) THEN {<<>>}
    ELSE {SideEvents(trades[k].give, k, trades[k].season, g)
            \o SideEvents(trades[k].get, k, trades[k].season, t) \o rest :
              g \in ToChoices(SideOwners(trades[k].get)),
              t \in ToChoices(SideOwners(trades[k].give)),
              rest \in PickTradeLists(trades, k + 1)}

PickId(owner, year, round) == <<owner, year, round>>

\* AddEvent without the assignment of line 424
AddEvent_KeepsOwner(L, pt) ==
    LET pi == pt.pick
        pick_id == PickId(pi.original_owner, pi.draft_year, pi.round)
        entry == IF pick_id \in DOMAIN L THEN L[pick_id]
                 ELSE [original_owner |-> pi.original_owner,
                       draft_year |-> pi.draft_year, round |-> pi.round,
                       is_swap |-> pi.is_swap, trades |-> <<>>,
                       current_owner |-> pi.original_owner]
    IN  (pick_id :> [entry EXCEPT
                        !.is_swap = @ \/ pi.is_swap,
                        !.trades = Append(@, [trade_index |-> pt.trade_index,
                                              season |-> pt.season, from |-> pt.from,
                                              to |-> pt.to, raw |-> pt.raw])]) @@ L

\* step 2, one pick trade (lines 398-424)
AddEvent(L, pt) ==
    LET pi == pt.pick
        pick_id == PickId(pi.original_owner, pi.draft_year, pi.round)
        entry == IF pick_id \in DOMAIN L THEN L[pick_id]
                 ELSE [original_owner |-> pi.original_owner,
                       draft_year |-> pi.draft_year, round |-> pi.round,
                       is_swap |-> pi.is_swap, trades |-> <<>>,
                       current_owner |-> pi.original_owner]
    IN  (pick_id :> [entry EXCEPT
                        !.is_swap = @ \/ pi.is_swap,
                        !.trades = Append(@, [trade_index |-> pt.trade_index,
                                              season |-> pt.season, from |-> pt.from,
                                              to |-> pt.to, raw |-> pt.raw]),
                        !.current_owner = pt.to]) @@ L

RECURSIVE BuildLedger(_, _)
BuildLedger(pts, L) ==
    IF pts = <<>> THEN L ELSE BuildLedger(Tail(pts), AddEvent(L, pts[1]))

\* a picks.json entry: the year key, the owner key and one pick string of the
\* owner's list (its words, the year it names or 0, its round, "swap")
Listing(year, owner, words, text_year, round, swap) ==
    [year |-> year, owner |-> owner, words |-> words, text_year |-> text_year,
     round |-> round, swap |-> swap]

ListingInfo(e) ==
    parse_pick_string(e.words, IF e.text_year # 0 THEN e.text_year ELSE e.year,
                      e.round, e.swap)
ListingOwner(e) ==
    IF resolve_owner(e.owner) \in CANONICAL_OWNERS THEN resolve_owner(e.owner)
    ELSE e.owner

\* step 3, one pick string (lines 440-463)
MergeListing(L, e) ==
    LET pick_info == ListingInfo(e)
        pick_id == PickId(pick_info.original_owner, e.year, pick_info.round)
        entry == IF pick_id \in DOMAIN L THEN L[pick_id]
                 ELSE [original_owner |-> pick_info.original_owner,
                       draft_year |-> e.year, round |-> pick_info.round,
                       is_swap |-> pick_info.is_swap, trades |-> <<>>,
                       current_owner |-> ListingOwner(e)]
    IN  IF ~pick_info.ok THEN L
        ELSE (pick_id :> [entry EXCEPT !.current_owner = ListingOwner(e)]) @@ L

RECURSIVE MergePicksJson(_, _)
MergePicksJson(listings, L) ==
    IF listings = <<>> THEN L
    ELSE MergePicksJson(Tail(listings), MergeListing(L, listings[1]))

\* ---------------------------------------------------------------- inputs
MaxPickTrades == 2     \* trades in trades.json
MaxListings == 2       \* pick strings in picks.json

PickYears == {2026}

\* trades.json entries that move a pick: the sender's item names the pick's
\* owner (or none, for the sender's own pick); the receiver sends a player,
\* or nothing
PickTradeEntries ==
    {TradeEntry(sd[1], sd[2],
                <<PickItem(o[1], orig, y, 1, FALSE)>>,
                IF back THEN <<PlayerItem(o[2], NameC)>> ELSE <<>>,
                FALSE, FALSE, None) :
        sd \in {<<"2023-24", 20231017>>, <<"2023-24", NoDate>>, <<"2024-25", NoDate>>},
        o \in {<<"BADEN", "GOLD">>, <<"GOLD", "BERK">>, <<"GOLD", "VLAD">>,
               <<"BERK", "BADEN">>},
        orig \in {"", "Baden"},
        y \in PickYears,
        back \in BOOLEAN}

\* trades.json is the list load_trade_csvs.main wrote: sorted by sort_key
IsSortedTrades(trades) ==
    \A k \in 1..(Len(trades) - 1) : KeyLeq(sort_key(trades[k]), sort_key(trades[k + 1]))

PickListings ==
    {Listing(y, owner, <<"Baden">>, 0, 1, FALSE) :
        y \in PickYears, owner \in {"Gold", "Berke"}}

InitPicks ==
    /\ pc = "loaded"
    /\ trades_json \in {t \in SeqsUpTo(PickTradeEntries, MaxPickTrades) : IsSortedTrades(t)}
    /\ picks_json \in SeqsUpTo(PickListings, MaxListings)
    /\ pick_trades = <<>>
    /\ ledger = <<>>
    /\ csv_trades = <<>> /\ recon = NoRecon /\ final_trades = <<>> /\ attribution = <<>>
    /\ scoring = <<>> /\ grader = None /\ trade_grades = <<>>
    /\ combined = <<>>
    /\ calls = <<>> /\ disk = <<>>

\* main, step 1 (lines 309-390)
ParsePickItems ==
    /\ pc = "loaded"
    /\ pick_trades' \in PickTradeLists(trades_json, 1)
    /\ pc' = "parsed"
    /\ UNCHANGED <<trades_json, ledger, picks_json, reconVars, gradeVars, combined, auxVars>>

\* main, step 2 (lines 394-426)
BuildPickLedger ==
    /\ pc = "parsed"
    /\ ledger' = BuildLedger(pick_trades, <<>>)
    /\ pc' = "ledgered"
    /\ UNCHANGED <<trades_json, pick_trades, picks_json, reconVars, gradeVars, combined, auxVars>>

\* main, step 3 (lines 428-466)
MergeFuturePicks ==
    /\ pc = "ledgered"
    /\ ledger' = MergePicksJson(picks_json, ledger)
    /\ pc' = "merged"
    /\ UNCHANGED <<trades_json, pick_trades, picks_json, reconVars, gradeVars, combined, auxVars>>

NextPicks == ParsePickItems \/ BuildPickLedger \/ MergeFuturePicks

SpecPicks == InitPicks /\ [][NextPicks]_vars


\* ------------------------------------------------------------ claims (picks)
LastTo(e) == e.trades[Len(e.trades)].to

\* the picks.json pick strings that name ledger entry id
ListingsOf(id) ==
    {k \in DOMAIN picks_json :
        /\ ListingInfo(picks_json[k]).ok
        /\ PickId(ListingInfo(picks_json[k]).original_owner, picks_json[k].year,
                  ListingInfo(picks_json[k]).round) = id}

\* C4 (as stated): in the ledger main writes, after the merge of picks.json,
\* every entry's current_owner is the 'to' owner of the last transfer event of
\* its chain, or its original_owner when the chain is empty.
C4_CurrentOwnerIsLastTo ==
    pc = "merged" =>
        \A id \in DOMAIN ledger :
            ledger[id].current_owner =
                IF ledger[id].trades = <<>> THEN ledger[id].original_owner
                ELSE LastTo(ledger[id])

\* C4 (amended): after step 2 every entry has a chain and its current_owner is
\* the 'to' owner of the chain's last event; after the merge of picks.json an
\* entry that picks.json lists has the owner of its last listing as
\* current_owner, and every other entry still has the 'to' owner of the last
\* event of its (non-empty) chain.
C4_CurrentOwnerAfterMerge ==
    /\ pc = "ledgered" =>
          \A id \in DOMAIN ledger :
              ledger[id].trades # <<>> /\ ledger[id].current_owner = LastTo(ledger[id])
    /\ pc = "merged" =>
          \A id \in DOMAIN ledger :
              IF ListingsOf(id) # {}
              THEN ledger[id].current_owner
                       = ListingOwner(picks_json[SetMax(ListingsOf(id))])
              ELSE ledger[id].trades # <<>>
                       /\ ledger[id].current_owner = LastTo(ledger[id])

\* a traded pick that picks.json lists under another owner than its last
\* receiver, next to a traded pick that picks.json does not list
C4_Witness ==
    /\ pc = "merged"
    /\ \E id \in DOMAIN ledger :
          /\ ListingsOf(id) # {} /\ ledger[id].trades # <<>>
          /\ ledger[id].current_owner # LastTo(ledger[id])
    /\ \E id \in DOMAIN ledger :
          /\ ListingsOf(id) = {} /\ ledger[id].trades # <<>>
          /\ ledger[id].current_owner # ledger[id].original_owner

\* the chronological key of the trade an event came from
EventKey(ev) == sort_key(trades_json[ev.trade_index])

\* the pick an item names: the owner in its text, else the sender
NamedPick(item) ==
    PickId(resolve_owner(IF item.orig = "" THEN item.abbr ELSE item.orig),
           item.year, item.round)

\* the transfers of picks trade k describes
Moves(k) ==
    LET t == trades_json[k]
    IN  {[id |-> NamedPick(t.give[n]), from |-> resolve_owner(t.give[n].abbr),
          to |-> o, k |-> k] :
            n \in {m \in DOMAIN t.give : t.give[m].pick}, o \in SideOwners(t.get)}
        \cup
        {[id |-> NamedPick(t.get[n]), from |-> resolve_owner(t.get[n].abbr),
          to |-> o, k |-> k] :
            n \in {m \in DOMAIN t.get : t.get[m].pick}, o \in SideOwners(t.give)}
AllMoves == UNION {Moves(k) : k \in DOMAIN trades_json}

\* C5: the transfer events of every ledger entry are in the order of the
\* trades' chronological key (season, then date, undated last); a pick traded
\* X -> Y and then Y -> Z (and not otherwise) has a chain of exactly these two
\* events in this order and current_owner Z.
C5_ChainChronological ==
    pc = "merged" =>
        /\ \A id \in DOMAIN ledger :
              \A k \in 1..(Len(ledger[id].trades) - 1) :
                  KeyLeq(EventKey(ledger[id].trades[k]),
                         EventKey(ledger[id].trades[k + 1]))
        /\ \A m1 \in AllMoves : \A m2 \in AllMoves :
              ( /\ m1.k < m2.k /\ m1.id = m2.id
                /\ m1.from = m1.id[1] /\ m1.to = m2.from
                /\ {m \in AllMoves : m.id = m1.id} = {m1, m2}
                /\ ListingsOf(m1.id) = {} )
              => /\ m1.id \in DOMAIN ledger
                 /\ [n \in DOMAIN ledger[m1.id].trades |->
                        <<ledger[m1.id].trades[n].trade_index,
                          ledger[m1.id].trades[n].from,
                          ledger[m1.id].trades[n].to>>]
                      = << <<m1.k, m1.from, m1.to>>, <<m2.k, m2.from, m2.to>> >>
                 /\ ledger[m1.id].current_owner = m2.to


\* ============================== compute_trade_windows.py and grade_trades.py
\* a looked-up FPts/game: some = FALSE is None
NoStat == [some |-> FALSE, v |-> 0]
Stat(v) == [some |-> TRUE, v |-> v]

GRADE_SEASON_ORDER == <<"2020-21", "2021-22", "2022-23", "2023-24", "2024-25", "2025-26">>

next_season(season) ==
    IF \E i \in 1..(Len(GRADE_SEASON_ORDER) - 1) : GRADE_SEASON_ORDER[i] = season
    THEN GRADE_SEASON_ORDER[(CHOOSE i \in 1..(Len(GRADE_SEASON_ORDER) - 1) :
                                GRADE_SEASON_ORDER[i] = season) + 1]
    ELSE None

\* GRADE_SCALE with the rows of A and B exchanged
GRADE_SCALE_Swapped == << <<80, "A+">>, <<40, "B">>, <<10, "A">>, <<-10, "C">>, <<-40, "D">> >>

\* compute_trade_windows.GRADE_SCALE, thresholds in tenths; below the last: F
GRADE_SCALE == << <<80, "A+">>, <<40, "A">>, <<10, "B">>, <<-10, "C">>, <<-40, "D">> >>

RECURSIVE ScaleGrade(_, _)
ScaleGrade(scale, delta) ==
    IF scale = <<>> THEN "F"
    ELSE IF delta >= scale[1][1] THEN scale[1][2]
    ELSE ScaleGrade(Tail(scale), delta)

\* delta_to_grade comparing with > instead of >=
RECURSIVE ScaleGradeStrict(_, _)
ScaleGradeStrict(scale, delta) ==
    IF scale = <<>> THEN "F"
    ELSE IF delta > scale[1][1] THEN scale[1][2]
    ELSE ScaleGradeStrict(Tail(scale), delta)
delta_to_grade_strict(delta) == ScaleGradeStrict(GRADE_SCALE, delta)

delta_to_grade(delta) == ScaleGrade(GRADE_SCALE, delta)

\* grade_trades.GRADE_SCALE and delta_to_grade
GT_GRADE_SCALE == << <<50, "A+">>, <<30, "A">>, <<10, "B">>, <<-10, "C">>, <<-30, "D">> >>
gt_delta_to_grade(delta) == ScaleGrade(GT_GRADE_SCALE, delta)

\* get_fpts / get_player_stats_for_season: the value the tables hold, or None
get_fpts(tbl, player_name, season) ==
    IF <<player_name, season>> \in DOMAIN tbl THEN Stat(tbl[<<player_name, season>>])
    ELSE NoStat

\* round(n / 2 tenths, 1): exact when n is even; a decimal tie is rounded by
\* the binary value of the float, to either neighbour (ties[n])
HalfTenths(n, ties) ==
    IF n % 2 = 0 THEN n \div 2
    ELSE IF ties[n] THEN (n + 1) \div 2 ELSE (n - 1) \div 2

PlayerEntry(name, pre, post, has_delta, delta, status) ==
    [player |-> name, pre_fpg |-> pre, post_fpg |-> post,
     has_delta |-> has_delta, delta |-> delta, status |-> status]

\* process_side without the post_season test of line 246
WindowEntry_NoSeasonTest(name, season, tbl, ties) ==
    LET post_season == next_season(season)
        pre == get_fpts(tbl, name, season)
        post == IF post_season # None THEN get_fpts(tbl, name, post_season) ELSE NoStat
    IN  CASE pre.some /\ post.some ->
               PlayerEntry(name, pre, post, TRUE, post.v - pre.v, "graded")
          [] pre.some /\ ~post.some ->
               PlayerEntry(name, pre, post, TRUE, HalfTenths(-pre.v, ties), "no_post_data")
          [] ~pre.some /\ post.some ->
               PlayerEntry(name, pre, post, TRUE, HalfTenths(post.v, ties), "no_pre_data")
          [] OTHER -> PlayerEntry(name, pre, post, FALSE, 0, "no_data")

\* process_side, one received player (lines 221-262)
WindowEntry(name, season, tbl, ties) ==
    LET post_season == next_season(season)
        pre == get_fpts(tbl, name, season)
        post == IF post_season # None THEN get_fpts(tbl, name, post_season) ELSE NoStat
    IN  CASE pre.some /\ post.some ->
               PlayerEntry(name, pre, post, TRUE, post.v - pre.v, "graded")
          [] pre.some /\ ~post.some ->
               IF post_season # None
               THEN PlayerEntry(name, pre, post, TRUE, HalfTenths(-pre.v, ties),
                                "no_post_data")
               ELSE PlayerEntry(name, pre, post, FALSE, 0, "current_season")
          [] ~pre.some /\ post.some ->
               PlayerEntry(name, pre, post, TRUE, HalfTenths(post.v, ties), "no_pre_data")
          [] OTHER -> PlayerEntry(name, pre, post, FALSE, 0, "no_data")

\* the deltas a list of player entries adds to the side total
EntryDeltas(entries) ==
    [k \in DOMAIN entries |-> IF entries[k].has_delta THEN entries[k].delta ELSE 0]

SideResult(owner, players, picks, total, grade) ==
    [owner |-> owner, received_players |-> players, received_picks |-> picks,
     received_delta |-> total, grade |-> grade]

\* compute_trade_windows.is_pick / parse_asset on the items of the model
is_pick(item) == item.pick
PlayersOf(items) == SelectSeq(items, LAMBDA it : ~is_pick(it))
PicksOf(items) == SelectSeq(items, LAMBDA it : is_pick(it))

\* compute_trade_windows.process_side (lines 209-300)
process_side(received_items, owner, season, tbl, ties) ==
    LET names == PlayersOf(received_items)
        players_received ==
            [k \in DOMAIN names |-> WindowEntry(names[k].name, season, tbl, ties)]
        picks_received == PicksOf(received_items)
        total_delta == SumSeq(EntryDeltas(players_received))
        has_graded_player ==
            \E k \in DOMAIN players_received : players_received[k].has_delta
    IN  SideResult(owner, players_received, picks_received, total_delta,
                   IF ~has_graded_player THEN "INC" ELSE delta_to_grade(total_delta))

\* compute_trade_windows.parse_owner over a side (lines 188-202)
OWNER_ABBREVS ==
    [a \in {"BADEN", "VLAD", "KELL", "GOLD", "BERK"} |->
        CASE a = "BADEN" -> "Baden"
          [] a = "VLAD"  -> "Baden"
          [] a = "KELL"  -> "Peterson"
          [] a = "GOLD"  -> "Gold"
          [] a = "BERK"  -> "Berke"]
RECURSIVE SideOwner(_)
SideOwner(items) ==
    IF items = <<>> THEN "Unknown"
    ELSE IF items[1].abbr \in DOMAIN OWNER_ABBREVS THEN OWNER_ABBREVS[items[1].abbr]
    ELSE SideOwner(Tail(items))

\* compute_trade_windows.parse_asset (lines 86-92): the item without its owner
\* prefix when the prefix is a known abbreviation
parse_asset(item) ==
    IF item.abbr \in DOMAIN OWNER_ABBREVS THEN [item EXCEPT !.abbr = ""] ELSE item
Assets(items) == [k \in DOMAIN items |-> parse_asset(items[k])]

\* a side record with the assets it gave and received
WithAssets(side, gave, received) == side @@ [gave |-> gave, received |-> received]

\* compute_trade_windows.main for one trade, side b listing as given what it
\* received
WindowGrade_GaveReceived(trade, tbl, ties) ==
    [season |-> trade.season,
     side_a |-> WithAssets(process_side(trade.get, SideOwner(trade.give), trade.season,
                                        tbl, ties),
                           Assets(trade.give), Assets(trade.get)),
     side_b |-> WithAssets(process_side(trade.give, SideOwner(trade.get), trade.season,
                                        tbl, ties),
                           Assets(trade.give), Assets(trade.give))]

\* compute_trade_windows.main for one trade (lines 176-309)
WindowGrade(trade, tbl, ties) ==
    [season |-> trade.season,
     side_a |-> WithAssets(process_side(trade.get, SideOwner(trade.give), trade.season,
                                        tbl, ties),
                           Assets(trade.give), Assets(trade.get)),
     side_b |-> WithAssets(process_side(trade.give, SideOwner(trade.get), trade.season,
                                        tbl, ties),
                           Assets(trade.get), Assets(trade.give))]

\* grade_trades.grade_side, one received player (lines 431-477)
GradeEntry(name, season, tbl, ties) ==
    LET post_season == next_season(season)
        pre == get_fpts(tbl, name, season)
        post == IF post_season # None THEN get_fpts(tbl, name, post_season) ELSE NoStat
    IN  CASE pre.some /\ post.some ->
               PlayerEntry(name, pre, post, TRUE, post.v - pre.v, "graded")
          [] ~pre.some /\ post.some ->
               PlayerEntry(name, pre, post, TRUE, 0, "no_baseline")
          [] pre.some /\ ~post.some ->
               PlayerEntry(name, pre, post, TRUE, HalfTenths(-pre.v, ties), "no_post_data")
          [] OTHER -> PlayerEntry(name, pre, post, TRUE, 0, "no_data")

\* grade_trades.grade_side (lines 424-498)
grade_side(received_players, owner, picks, season, tbl, ties) ==
    LET player_details ==
            [k \in DOMAIN received_players |->
                GradeEntry(received_players[k].name, season, tbl, ties)]
        total_delta == SumSeq(EntryDeltas(player_details))
    IN  SideResult(owner, player_details, picks, total_delta,
                   IF player_details = <<>> THEN "INC"
                   ELSE gt_delta_to_grade(total_delta))

\* grade_trades.OWNER_MAP (it has no "VLAD") and resolve_owner over a side
GT_OWNER_MAP ==
    [a \in {"BADEN", "KELL", "GOLD", "BERK"} |->
        CASE a = "BADEN" -> "Baden"
          [] a = "KELL"  -> "Baden"
          [] a = "GOLD"  -> "Gold"
          [] a = "BERK"  -> "Berke"]
GtOwners(items) ==
    {IF items[k].abbr \in DOMAIN GT_OWNER_MAP THEN GT_OWNER_MAP[items[k].abbr]
     ELSE items[k].abbr : k \in DOMAIN items}

\* grade_trades.parse_trade_item (lines 237-249): the item without its first word
GtAssets(items) == [k \in DOMAIN items |-> [items[k] EXCEPT !.abbr = ""]]

\* grade_trades.main for one trade (lines 339-553): the entries it appends
GtGrades(trade, tbl, ties) ==
    LET give_owners == GtOwners(trade.give)
        get_owners == GtOwners(trade.get)
        all_owners == give_owners \cup get_owners
        side_a_received == PlayersOf(trade.get)
        side_b_received == PlayersOf(trade.give)
    IN  IF Cardinality(all_owners) < 2 THEN {<<>>}
        ELSE {<<[season |-> trade.season,
                 side_a |-> WithAssets(
                            IF side_a_received = <<>> /\ side_b_received = <<>>
                            THEN SideResult(oa, <<>>, PicksOf(trade.get), 0, "INC")
                            ELSE grade_side(side_a_received, oa, PicksOf(trade.get),
                                            trade.season, tbl, ties),
                            GtAssets(trade.give), GtAssets(trade.get)),
                 side_b |-> WithAssets(
                            IF side_a_received = <<>> /\ side_b_received = <<>>
                            THEN SideResult(ob, <<>>, PicksOf(trade.give), 0, "INC")
                            ELSE grade_side(side_b_received, ob, PicksOf(trade.give),
                                            trade.season, tbl, ties),
                            GtAssets(trade.get), GtAssets(trade.give))]>> :
                oa \in (IF give_owners = {} THEN all_owners ELSE give_owners),
                ob \in (IF get_owners = {} THEN all_owners ELSE get_owners)}

\* ---------------------------------------------------------------- inputs
MaxReceived == 2       \* players one side receives

\* (pre, post) FPts/game in tenths of the players of the model; 0 - 1: None
Absent == 0 - 1
StatPairsA ==
    {<<Absent, Absent>>, <<200, Absent>>, <<201, Absent>>, <<Absent, 300>>,
     <<Absent, 301>>, <<200, 250>>, <<100, 180>>, <<100, 179>>, <<100, 140>>,
     <<100, 139>>, <<100, 110>>, <<100, 109>>, <<100, 90>>, <<100, 89>>,
     <<100, 60>>, <<100, 59>>}
StatPairsB == {<<Absent, Absent>>, <<200, Absent>>, <<Absent, 300>>, <<200, 220>>}
StatPairsC == {<<Absent, Absent>>, <<100, 110>>}

\* the decimal ties the inputs can produce
TieInputs == {0 - 201, 301}

\* the season after s in the data files, whether or not the scripts know it
FollowingLabel(s) ==
    CASE s = "2024-25" -> "2025-26" [] s = "2025-26" -> "2026-27" [] OTHER -> "2020-21"

ScoringTable(season, a, b, c) ==
    LET rows == {<<NameA, season, a[1]>>, <<NameA, FollowingLabel(season), a[2]>>,
                 <<NameB, season, b[1]>>, <<NameB, FollowingLabel(season), b[2]>>,
                 <<NameC, season, c[1]>>, <<NameC, FollowingLabel(season), c[2]>>}
        known == {r \in rows : r[3] # Absent}
    IN  [key \in {<<r[1], r[2]>> : r \in known} |->
            (CHOOSE r \in known : <<r[1], r[2]>> = key)[3]]

GradeSeasons == {"2024-25", "2025-26", "2019-20"}

ReceivedPlayers ==
    {p \in SeqsUpTo({NameA, NameB}, MaxReceived) :
        \A i, j \in DOMAIN p : i # j => p[i] # p[j]}

\* trades.json entries to grade: Gold sends players and/or a pick to Baden
GradeTradeEntries ==
    {TradeEntry(season, NoDate, give,
                Prefixed("GOLD", gp)
                    \o (IF gk THEN <<PickItem("GOLD", "Gold", 2026, 2, FALSE)>> ELSE <<>>),
                FALSE, FALSE, None) :
        season \in GradeSeasons,
        give \in {<<PlayerItem("BADEN", NameC)>>,
                  <<PickItem("BADEN", "Baden", 2026, 1, FALSE)>>},
        gp \in ReceivedPlayers,
        gk \in BOOLEAN}

InitGrade ==
    /\ pc = "to_grade"
    /\ trades_json \in {<<t>> : t \in {e \in GradeTradeEntries : e.get # <<>>}}
    /\ \E a \in StatPairsA, b \in StatPairsB, c \in StatPairsC :
          scoring = ScoringTable(trades_json[1].season, a, b, c)
    /\ grader = None
    /\ trade_grades = <<>>
    /\ combined = <<>>
    /\ calls = <<>> /\ disk = <<>>
    /\ csv_trades = <<>> /\ recon = NoRecon /\ final_trades = <<>> /\ attribution = <<>>
    /\ pick_trades = <<>> /\ ledger = <<>> /\ picks_json = <<>>

\* compute_trade_windows.main (lines 105-395)
ComputeTradeWindows ==
    /\ pc = "to_grade"
    /\ \E ties \in [TieInputs -> BOOLEAN] :
          trade_grades' = <<WindowGrade(trades_json[1], scoring, ties)>>
    /\ grader' = "compute_trade_windows"
    /\ pc' = "graded"
    /\ UNCHANGED <<trades_json, scoring, reconVars, pickVars, combined, auxVars>>

\* grade_trades.main (lines 314-578)
GradeTrades ==
    /\ pc = "to_grade"
    /\ \E ties \in [TieInputs -> BOOLEAN] :
          trade_grades' \in GtGrades(trades_json[1], scoring, ties)
    /\ grader' = "grade_trades"
    /\ pc' = "graded"
    /\ UNCHANGED <<trades_json, scoring, reconVars, pickVars, combined, auxVars>>

NextGrade == ComputeTradeWindows \/ GradeTrades

SpecGrade == InitGrade /\ [][NextGrade]_vars


\* ---------------------------------------------------------- claims (grading)
\* the graded sides of trade_grades.json
GradedSides ==
    UNION {{trade_grades[k].side_a, trade_grades[k].side_b} : k \in DOMAIN trade_grades}
EntriesOf(side) == {side.received_players[k] : k \in DOMAIN side.received_players}
ByWindows == pc = "graded" /\ grader = "compute_trade_windows"

\* C6 (as stated): in compute_trade_windows, for every received player and
\* every trade season, a present pre stat with an absent post stat gives the
\* delta -0.5 x pre and the status "no_post_data", and the delta is added to
\* the side total.
C6_NoPostData ==
    ByWindows =>
        \A side \in GradedSides :
            /\ \A e \in EntriesOf(side) :
                  (e.pre_fpg.some /\ ~e.post_fpg.some)
                  => /\ e.has_delta /\ 2 * e.delta = 0 - e.pre_fpg.v
                     /\ e.status = "no_post_data"
            /\ side.received_delta = SumSeq(EntryDeltas(side.received_players))

\* C6 (amended): in compute_trade_windows, a received player with a pre stat
\* and no post stat gets, when the trade season has a following season in
\* SEASON_ORDER, the delta -0.5 x pre rounded to one decimal and the status
\* "no_post_data", and the delta is added to the side total; when the trade
\* season has no following season the player gets no delta and the status
\* "current_season" and adds nothing.  A side receiving only a player with
\* pre = 20.0 and no post data in such a season has delta -10.0 and grade F.
C6_NoPostDataInSeason ==
    ByWindows =>
        \A side \in GradedSides :
            /\ \A e \in EntriesOf(side) :
                  (e.pre_fpg.some /\ ~e.post_fpg.some)
                  => IF next_season(trade_grades[1].season) # None
                     THEN /\ e.has_delta
                          /\ 2 * e.delta \in {0 - e.pre_fpg.v - 1, 0 - e.pre_fpg.v,
                                              0 - e.pre_fpg.v + 1}
                          /\ e.status = "no_post_data"
                     ELSE ~e.has_delta /\ e.status = "current_season"
            /\ side.received_delta = SumSeq(EntryDeltas(side.received_players))
            /\ ( /\ Len(side.received_players) = 1
                 /\ side.received_players[1].pre_fpg = Stat(200)
                 /\ ~side.received_players[1].post_fpg.some
                 /\ next_season(trade_grades[1].season) # None )
               => /\ side.received_players[1].delta = 0 - 100
                  /\ side.received_delta = 0 - 100
                  /\ side.grade = "F"

\* a side whose only received player has pre = 20.0 and no post data, graded F
C6_Witness ==
    /\ ByWindows
    /\ \E side \in GradedSides :
          /\ Len(side.received_players) = 1
          /\ side.received_players[1].pre_fpg = Stat(200)
          /\ side.received_players[1].status = "no_post_data"
          /\ side.received_delta = 0 - 100
          /\ side.grade = "F"

\* C7: a received player with no pre stat and a post stat gets the delta
\* 0.5 x post and the status "no_baseline", in both graders.
C7_NoBaseline ==
    pc = "graded" =>
        \A side \in GradedSides :
            \A e \in EntriesOf(side) :
                (~e.pre_fpg.some /\ e.post_fpg.some)
                => /\ e.has_delta /\ 2 * e.delta = e.post_fpg.v
                   /\ e.status = "no_baseline"

\* C8: a received player with neither stat has status "no_data" and no delta
\* and adds nothing to the side total; a side whose received players all lack
\* both stats and that received no picks is graded INC, in both graders.
C8_NoData ==
    pc = "graded" =>
        \A side \in GradedSides :
            /\ \A e \in EntriesOf(side) :
                  (~e.pre_fpg.some /\ ~e.post_fpg.some)
                  => e.status = "no_data" /\ ~e.has_delta
            /\ side.received_delta
                  = SumSeq(EntryDeltas(SelectSeq(side.received_players,
                               LAMBDA e : e.pre_fpg.some \/ e.post_fpg.some)))
            /\ ( /\ \A e \in EntriesOf(side) : ~e.pre_fpg.some /\ ~e.post_fpg.some
                 /\ side.received_picks = <<>> )
               => side.grade = "INC"

\* the scale as the claim states it, in tenths
ClaimedGrade(total) ==
    IF total >= 80 THEN "A+"
    ELSE IF total >= 40 THEN "A"
    ELSE IF total >= 10 THEN "B"
    ELSE IF total >= 0 - 10 THEN "C"
    ELSE IF total >= 0 - 40 THEN "D"
    ELSE "F"

\* C9: in compute_trade_windows the grade of a side with a gradeable player is
\* the scale grade (>= 8 A+, >= 4 A, >= 1 B, >= -1 C, >= -4 D, else F) of the
\* sum of the deltas of its gradeable received players; deltas +5.0 and +2.0
\* give total +7.0 and grade A.
C9_GradeScale ==
    ByWindows =>
        \A side \in GradedSides :
            /\ (\E e \in EntriesOf(side) : e.has_delta)
               => side.grade = ClaimedGrade(SumSeq(EntryDeltas(side.received_players)))
            /\ ( /\ Len(side.received_players) = 2
                 /\ side.received_players[1].has_delta
                 /\ side.received_players[2].has_delta
                 /\ {side.received_players[1].delta, side.received_players[2].delta}
                        = {50, 20} )
               => side.received_delta = 70 /\ side.grade = "A"

\* a side that received two players with deltas +5.0 and +2.0
C9_Witness ==
    /\ ByWindows
    /\ \E side \in GradedSides :
          /\ Len(side.received_players) = 2
          /\ side.received_players[1].has_delta /\ side.received_players[1].delta = 50
          /\ side.received_players[2].has_delta /\ side.received_players[2].delta = 20
          /\ side.grade = "A"


\* ================================================== combine_trade_grades.py
\* an optional number: some = FALSE is None (or a missing key)
NoNum == [some |-> FALSE, v |-> 0]
Num(v) == [some |-> TRUE, v |-> v]

\* GRADE_GPA in tenths (line 30); INC and unknown letters give None
GRADE_GPA(grade) ==
    CASE grade = "A+" -> Num(43) [] grade = "A" -> Num(40) [] grade = "B" -> Num(30)
      [] grade = "C" -> Num(20) [] grade = "D" -> Num(10) [] grade = "F" -> Num(0)
      [] OTHER -> NoNum

\* gpa_to_grade with the A cut point at 3.4 instead of 3.5
gpa_to_grade_A34(num, den) ==
    IF num >= 415 * den THEN "A+"
    ELSE IF num >= 340 * den THEN "A"
    ELSE IF num >= 250 * den THEN "B"
    ELSE IF num >= 150 * den THEN "C"
    ELSE IF num >= 50 * den THEN "D"
    ELSE "F"

\* gpa_to_grade of the GPA num / den hundredths (lines 84-97)
gpa_to_grade(num, den) ==
    IF num >= 415 * den THEN "A+"
    ELSE IF num >= 350 * den THEN "A"
    ELSE IF num >= 250 * den THEN "B"
    ELSE IF num >= 150 * den THEN "C"
    ELSE IF num >= 50 * den THEN "D"
    ELSE "F"

\* round(gpa, 2) in hundredths, of num / den hundredths
Round2(num, den) == (2 * num + den) \div (2 * den)

\* Python's  a or b  on optional numbers: a when a is neither None nor 0
NumOr(a, b) == IF a.some /\ a.v # 0 THEN a ELSE b
\* Python's  a or b  on optional letter grades ("" is None or missing)
GradeOr(a, b) == IF a # "" THEN a ELSE b

\* a pick_ledger.json entry as the tracker's steps 4 and 5 leave it
LedgerGrade(status, pick_grade, projected_grade) ==
    [status |-> status,
     pick_grade |-> pick_grade,
     pick_gpa |-> IF pick_grade = "" THEN NoNum ELSE GRADE_GPA(pick_grade),
     projected_grade |-> projected_grade,
     projected_gpa |-> IF projected_grade = "" THEN NoNum ELSE GRADE_GPA(projected_grade)]

\* the words of a received_picks string: compute_trade_windows.parse_asset
\* dropped the owner prefix when it is a known abbreviation
AssetWords(item) ==
    (IF item.abbr \in DOMAIN OWNER_ABBREVS THEN <<>> ELSE <<item.abbr>>)
        \o (IF item.orig = "" THEN <<>> ELSE <<item.orig>>)

\* parse_pick_id_from_string (lines 108-152): ok = FALSE is None
parse_pick_id_from_string(item) ==
    LET info == parse_pick_string(AssetWords(item), item.year, item.round, item.swap)
    IN  [ok |-> info.ok,
         id |-> PickId(info.original_owner, info.draft_year, info.round)]

\* the GPAs of the received picks that count (lines 196-213)
RECURSIVE pick_gpas(_, _)
pick_gpas(received_picks, picks) ==
    IF received_picks = <<>> THEN <<>>
    ELSE LET pid == parse_pick_id_from_string(received_picks[1])
             rest == pick_gpas(Tail(received_picks), picks)
         IN  IF ~pid.ok \/ pid.id \notin DOMAIN picks THEN rest
             ELSE LET pick_data == picks[pid.id]
                      grade == GradeOr(pick_data.pick_grade, pick_data.projected_grade)
                      gpa == NumOr(pick_data.pick_gpa, pick_data.projected_gpa)
                  IN  IF grade # "" /\ gpa.some THEN <<gpa.v>> \o rest ELSE rest

CombinedSide(grade, gpa, basis, gpas) ==
    [combined_grade |-> grade, combined_gpa |-> gpa, grade_basis |-> basis,
     pick_gpas |-> gpas]

\* main, one side (lines 186-240)
CombineSide(side, picks) ==
    LET player_grade == side.grade
        player_gpa == GRADE_GPA(player_grade)
        has_players == Len(side.received_players) > 0
        has_picks == Len(side.received_picks) > 0
        gpas == pick_gpas(side.received_picks, picks)
        n == Len(gpas)
        sum == SumSeq(gpas)
    IN  IF has_players /\ has_picks /\ player_gpa.some /\ n > 0
        THEN CombinedSide(gpa_to_grade(6 * player_gpa.v * n + 4 * sum, n),
                          Num(Round2(6 * player_gpa.v * n + 4 * sum, n)), "mixed", gpas)
        ELSE IF has_picks /\ n > 0 /\ (~has_players \/ ~player_gpa.some)
        THEN CombinedSide(gpa_to_grade(10 * sum, n), Num(Round2(10 * sum, n)),
                          "picks_only", gpas)
        ELSE IF has_players /\ player_gpa.some
        THEN CombinedSide(player_grade,
                          IF player_gpa.v # 0 THEN Num(10 * player_gpa.v) ELSE NoNum,
                          "players_only", gpas)
        ELSE CombinedSide("INC", NoNum, "incomplete", gpas)

\* ---------------------------------------------------------------- inputs
MaxPicks == 2          \* picks one side receives

\* the picks Gold can send, by the owner their text names
CombinePickItems ==
    {PickItem("GOLD", "Baden", 2026, 1, FALSE), PickItem("GOLD", "Gold", 2026, 2, FALSE)}
ReceivedPicks ==
    {p \in SeqsUpTo(CombinePickItems, MaxPicks) :
        \A i, j \in DOMAIN p : i # j => p[i] # p[j]}

\* trades.json entries: Baden sends a player, Gold sends player A and/or picks
CombineTradeEntries ==
    {TradeEntry("2024-25", NoDate, <<PlayerItem("BADEN", NameC)>>,
                Prefixed("GOLD", gp) \o gk, FALSE, FALSE, None) :
        gp \in {<<>>, <<NameA>>}, gk \in ReceivedPicks}

\* (pre, post) of player A: one pair per letter grade, and no data
CombineStatPairsA ==
    {<<Absent, Absent>>, <<100, 180>>, <<100, 140>>, <<100, 110>>, <<100, 90>>,
     <<100, 60>>, <<100, 59>>}

\* what the ledger can hold for a pick: not graded, graded from the draft
\* (completed), or graded from the standings (projected)
LedgerGrades ==
    {LedgerGrade("pending", "", "")}
    \cup {LedgerGrade("completed", g, "") : g \in {"A+", "B", "F"}}
    \cup {LedgerGrade("projected", "", g) : g \in {"A", "F"}}

CombineLedgers ==
    UNION {[ids -> LedgerGrades] :
              ids \in SUBSET {PickId("Baden", 2026, 1), PickId("Gold", 2026, 2)}}

InitCombine ==
    /\ pc = "to_combine"
    /\ trades_json \in {<<t>> : t \in {e \in CombineTradeEntries : e.get # <<>>}}
    /\ \E a \in CombineStatPairsA, c \in StatPairsC :
          scoring = ScoringTable(trades_json[1].season, a, <<Absent, Absent>>, c)
    /\ grader = "compute_trade_windows"
    /\ trade_grades = <<WindowGrade(trades_json[1], scoring, [n \in TieInputs |-> TRUE])>>
    /\ ledger \in CombineLedgers
    /\ combined = <<>>
    /\ calls = <<>> /\ disk = <<>>
    /\ csv_trades = <<>> /\ recon = NoRecon /\ final_trades = <<>> /\ attribution = <<>>
    /\ pick_trades = <<>> /\ picks_json = <<>>

\* the combined GPAs b (hundredths) for which the float test
\* (b + 50) / 100 > b / 100 + 0.5  is true although the difference is 0.5
HalfPointFloatTies ==
    {18, 41, 42, 43, 57, 59, 61, 82, 84, 86, 164, 168, 172, 189, 193, 197,
     353, 361, 369, 378}

\* a_gpa > b_gpa + 0.5 on the stored floats (lines 275 and 278)
GpaBeats(a, b) == a > b + 50 \/ (a = b + 50 /\ b \in HalfPointFloatTies)

TradeSummary(kind, winner) == [kind |-> kind, winner |-> winner]

\* main, the trade-level summary (lines 266-291)
summary(owner_a, owner_b, a, b) ==
    IF a.combined_gpa.some /\ b.combined_gpa.some
    THEN IF GpaBeats(a.combined_gpa.v, b.combined_gpa.v) THEN TradeSummary("won", owner_a)
         ELSE IF GpaBeats(b.combined_gpa.v, a.combined_gpa.v) THEN TradeSummary("won", owner_b)
         ELSE TradeSummary("even", None)
    ELSE IF a.combined_grade = "INC" /\ b.combined_grade = "INC"
    THEN TradeSummary("incomplete", None)
    ELSE TradeSummary("partial", None)

\* main, one trade (lines 180-291)
CombineTrade(trade, picks) ==
    LET sides == [s \in {"side_a", "side_b"} |-> CombineSide(trade[s], picks)]
    IN  sides @@ [summary |-> summary(trade.side_a.owner, trade.side_b.owner,
                                      sides.side_a, sides.side_b)]

\* combine_trade_grades.main (lines 155-339)
CombineTradeGrades ==
    /\ pc = "to_combine"
    /\ combined' = [k \in DOMAIN trade_grades |-> CombineTrade(trade_grades[k], ledger)]
    /\ pc' = "combined"
    /\ UNCHANGED <<trades_json, reconVars, pickVars, gradeVars, auxVars>>

NextCombine == CombineTradeGrades

SpecCombine == InitCombine /\ [][NextCombine]_vars

\* ---------------------------------------------------------- claims (combiner)
\* the grade the ledger holds for a received pick, "" when it holds none
LedgerGradeOf(item) ==
    LET pid == parse_pick_id_from_string(item)
    IN  IF ~pid.ok \/ pid.id \notin DOMAIN ledger THEN ""
        ELSE IF ledger[pid.id].pick_grade # "" THEN ledger[pid.id].pick_grade
        ELSE ledger[pid.id].projected_grade

\* the GPAs (tenths) of the received picks of a side that the ledger grades
GradedPickGpas(side) ==
    LET graded == SelectSeq(side.received_picks, LAMBDA it : LedgerGradeOf(it) # "")
    IN  [k \in DOMAIN graded |-> GRADE_GPA(LedgerGradeOf(graded[k])).v]

\* what the claim says of one side and what the combiner stored for it
ClaimedWeighting(side, out) ==
    LET P == side.received_players # <<>> /\ GRADE_GPA(side.grade).some
        p == GRADE_GPA(side.grade).v
        gpas == GradedPickGpas(side)
        n == Len(gpas)
        K == n > 0
    IN  /\ (P /\ ~K) => out.combined_gpa = Num(10 * p)
        /\ (~P /\ K) => out.combined_gpa = Num(Round2(10 * SumSeq(gpas), n))
        /\ (P /\ K) => out.combined_gpa = Num(Round2(6 * p * n + 4 * SumSeq(gpas), n))
        /\ (~P /\ ~K) => out.combined_grade = "INC" /\ out.combined_gpa = NoNum

\* C10: for every side the combined GPA is 100% of the player GPA when the
\* side has only a player grade, 100% of the mean GPA of its graded received
\* picks when it has only those, 0.6 x player GPA + 0.4 x mean pick GPA when it
\* has both, and the side is INC with no GPA when it has neither.
C10_Weighting ==
    pc = "combined" =>
        \A k \in DOMAIN combined :
            /\ ClaimedWeighting(trade_grades[k].side_a, combined[k].side_a)
            /\ ClaimedWeighting(trade_grades[k].side_b, combined[k].side_b)

\* the sides the combiner read, each with what it stored for it
CombinedSides ==
    UNION {{<<trade_grades[k].side_a, combined[k].side_a>>,
            <<trade_grades[k].side_b, combined[k].side_b>>} : k \in DOMAIN combined}

\* a side with players graded B (GPA 3.0) and picks whose GPAs average 4.0
MixedB_A(io) ==
    /\ io[1].received_players # <<>>
    /\ io[1].grade = "B"
    /\ io[2].pick_gpas # <<>>
    /\ SumSeq(io[2].pick_gpas) = 40 * Len(io[2].pick_gpas)

\* C11 (as stated): a mixed side with player GPA 3.0 and average pick GPA 4.0
\* gets combined GPA 3.4 and combined letter grade A.
C11_MixedIsA ==
    pc = "combined" =>
        \A io \in CombinedSides :
            MixedB_A(io) => io[2].combined_gpa = Num(340) /\ io[2].combined_grade = "A"

\* C11 (amended): a mixed side with player GPA 3.0 and average pick GPA 4.0
\* gets combined GPA 3.4, which is below the A cut point 3.5, so its combined
\* letter grade is B.
C11_MixedIsB ==
    pc = "combined" =>
        \A io \in CombinedSides :
            MixedB_A(io) => /\ io[2].combined_gpa = Num(340)
                            /\ io[2].combined_grade = "B"
                            /\ io[2].grade_basis = "mixed"

\* a combined side with player grade B and one received pick graded A
C11_Witness ==
    /\ pc = "combined"
    /\ \E io \in CombinedSides : MixedB_A(io) /\ io[2].grade_basis = "mixed"

\* C12: for every trade whose two sides both have a combined GPA, the side
\* whose GPA is at least 0.5 higher (exactly 0.5 included) is named the winner
\* and otherwise the trade is even; when either side is INC no winner is named
\* and the trade is reported as lacking data.
C12_Winner ==
    pc = "combined" =>
        \A k \in DOMAIN combined :
            LET a == combined[k].side_a
                b == combined[k].side_b
                sm == combined[k].summary
            IN  /\ (a.combined_gpa.some /\ b.combined_gpa.some)
                   => /\ (a.combined_gpa.v >= b.combined_gpa.v + 50)
                         => sm = TradeSummary("won", trade_grades[k].side_a.owner)
                      /\ (b.combined_gpa.v >= a.combined_gpa.v + 50)
                         => sm = TradeSummary("won", trade_grades[k].side_b.owner)
                      /\ ( /\ a.combined_gpa.v < b.combined_gpa.v + 50
                           /\ b.combined_gpa.v < a.combined_gpa.v + 50 )
                         => sm = TradeSummary("even", None)
                /\ (a.combined_grade = "INC" \/ b.combined_grade = "INC")
                   => sm.kind \in {"incomplete", "partial"} /\ sm.winner = None


\* ------------------------------------------------ claims (reconciliation, 2)
\* the in-scope backbone trades, as main numbers them
ExcelInScope == InScope(parse_existing_trades(trades_json), csv_trades)

\* the players of a list of items, each with the owner its prefix names
OwnedPlayers(items) ==
    LET ps == SelectSeq(items, LAMBDA it : ~is_pick_excel(it))
    IN  [k \in DOMAIN ps |-> <<OrUnknown(FirstOwner(<<ps[k]>>)), ps[k].name>>]

\* the player rows of a CSV group, each with the owner who gave it
GroupPlayers(ct) ==
    [k \in DOMAIN ct.side_a_players |-> <<ct.owner_a, ct.side_a_players[k]>>]
    \o [k \in DOMAIN ct.side_b_players |-> <<ct.owner_b, ct.side_b_players[k]>>]

\* the output trade of the k-th matched pair holds every player of the group
HoldsGroup(t, ct, et) ==
    /\ t.season = et.season /\ t.date = ct.date
    /\ t.fantrax_confirmed
    /\ BagOf(OwnedPlayers(t.give \o t.get)) = BagOf(GroupPlayers(ct))
    /\ \A x \in Range(OwnedPlayers(t.give)) : x[1] = et.owner_a
    /\ \A x \in Range(OwnedPlayers(t.get)) : x[1] = et.owner_b
    /\ extract_picks(t.give) = et.give_picks /\ extract_picks(t.get) = et.get_picks

SoleClaimant(k) == Len(recon.csv_used_for[recon.matched[k][1]]) = 1

\* C13: when a backbone trade is the only one matched to a bundle group, its
\* output trade holds every player of the group (those the backbone trade did
\* not list included), each under the owner who gave it, and is marked
\* fantrax_confirmed.
C13_SoleClaimantTakesGroup ==
    pc = "written" =>
        \A k \in DOMAIN recon.matched :
            SoleClaimant(k) =>
                \E i \in DOMAIN final_trades :
                    HoldsGroup(final_trades[i], csv_trades[recon.matched[k][1]],
                               ExcelInScope[recon.matched[k][2]])

\* a sole claimant whose group holds a player the backbone trade did not list
C13_Witness ==
    /\ pc = "written"
    /\ \E k \in DOMAIN recon.matched :
          LET ct == csv_trades[recon.matched[k][1]]
              et == ExcelInScope[recon.matched[k][2]]
          IN  /\ SoleClaimant(k)
              /\ \E x \in Range(ct.side_a_players \o ct.side_b_players) :
                    \A y \in Range(et.give_players \o et.get_players) : ~Fuzzy(y, x)
              /\ \E i \in DOMAIN final_trades : HoldsGroup(final_trades[i], ct, et)


\* a written trade built from a CSV group: only those carry the group's date
Corroborated(t) == t.date # NoDate
HasPlayer(t) == extract_players(t.give \o t.get) # <<>>

\* C14 (as stated): every written trade with a bundle-corroborated asset is
\* marked confirmed, every trade with a player and no corroboration is flagged
\* needs_review whatever its season, and no pick-only trade is flagged.
C14_ConfidenceFlags ==
    pc = "written" =>
        \A i \in DOMAIN final_trades :
            LET t == final_trades[i]
            IN  /\ Corroborated(t) => t.fantrax_confirmed
                /\ (HasPlayer(t) /\ ~Corroborated(t)) => t.needs_review
                /\ ~HasPlayer(t) => ~t.needs_review

\* C14 (amended): every written trade built from a bundle group is marked
\* confirmed; a trade with a player and no corroboration is flagged
\* needs_review when its season is one the bundle files cover, and is written
\* as it was read, without the flag, when the bundle files hold no group of its
\* season; no pick-only trade is flagged.
C14_ConfidenceFlagsInScope ==
    pc = "written" =>
        \A i \in DOMAIN final_trades :
            LET t == final_trades[i]
            IN  /\ Corroborated(t) => t.fantrax_confirmed
                /\ (HasPlayer(t) /\ ~Corroborated(t))
                   => IF t.season \in csv_seasons(csv_trades)
                      THEN t.needs_review /\ t.source = "excel_only"
                      ELSE ~t.needs_review /\ t \in Range(trades_json)
                /\ ~HasPlayer(t) => ~t.needs_review

\* a written list holding an uncorroborated player trade of a covered season,
\* flagged, and one of a season the bundle files do not cover, not flagged
C14_Witness ==
    /\ pc = "written"
    /\ \E i, j \in DOMAIN final_trades :
          /\ HasPlayer(final_trades[i]) /\ ~Corroborated(final_trades[i])
          /\ final_trades[i].season \in csv_seasons(csv_trades)
          /\ final_trades[i].needs_review
          /\ HasPlayer(final_trades[j]) /\ ~Corroborated(final_trades[j])
          /\ final_trades[j].season \notin csv_seasons(csv_trades)
          /\ ~final_trades[j].needs_review


\* C15: the pick GPAs the combiner averages for a side are the GPAs of every
\* received pick that has a grade in the ledger, actual or projected, a pick
\* graded F counting with GPA 0.0; a picks-only side gets their mean.
C15_PickMean ==
    pc = "combined" =>
        \A io \in CombinedSides :
            /\ io[2].pick_gpas = GradedPickGpas(io[1])
            /\ (io[1].received_players = <<>> /\ GradedPickGpas(io[1]) # <<>>)
               => io[2].combined_gpa
                    = Num(Round2(10 * SumSeq(GradedPickGpas(io[1])),
                                 Len(GradedPickGpas(io[1]))))


\* ------------------------------------------------------ claims (grading, 2)
\* C16: in every graded trade record the assets side A lists as received are
\* exactly the assets side B lists as given, and the assets side B received
\* are exactly those side A gave, whichever grader wrote the record.
C16_Conservation ==
    pc = "graded" =>
        \A k \in DOMAIN trade_grades :
            /\ trade_grades[k].side_a.received = trade_grades[k].side_b.gave
            /\ trade_grades[k].side_b.received = trade_grades[k].side_a.gave
            /\ trade_grades[k].side_a.received = Assets(trades_json[1].get)
            /\ trade_grades[k].side_b.received = Assets(trades_json[1].give)

\* a graded record whose two sides received different, non-empty asset lists
C16_Witness ==
    /\ pc = "graded"
    /\ \E k \in DOMAIN trade_grades :
          /\ trade_grades[k].side_a.received # <<>>
          /\ trade_grades[k].side_b.received # <<>>
          /\ trade_grades[k].side_a.received # trade_grades[k].side_b.received
          /\ Len(trade_grades[k].side_a.received) = 3


\* ============================================ delta_to_grade as a function
MaxDelta == 90         \* the deltas graded, in tenths, are -MaxDelta..MaxDelta

InitScale ==
    /\ pc = "to_scale"
    /\ calls \in {[d1 |-> x, d2 |-> y, g1 |-> None, g2 |-> None] :
                    x \in (0 - MaxDelta)..MaxDelta, y \in (0 - MaxDelta)..MaxDelta}
    /\ calls.d1 < calls.d2
    /\ disk = <<>>
    /\ trades_json = <<>> /\ combined = <<>>
    /\ csv_trades = <<>> /\ recon = NoRecon /\ final_trades = <<>> /\ attribution = <<>>
    /\ pick_trades = <<>> /\ ledger = <<>> /\ picks_json = <<>>
    /\ scoring = <<>> /\ grader = None /\ trade_grades = <<>>

\* compute_trade_windows.delta_to_grade applied to two deltas (lines 72-76)
GradeDeltas ==
    /\ pc = "to_scale"
    /\ calls' = [calls EXCEPT !.g1 = delta_to_grade(calls.d1),
                              !.g2 = delta_to_grade(calls.d2)]
    /\ pc' = "scaled"
    /\ UNCHANGED <<trades_json, reconVars, pickVars, gradeVars, combined, disk>>

NextScale == GradeDeltas

SpecScale == InitScale /\ [][NextScale]_vars

\* the order F < D < C < B < A < A+
GradeRank(g) ==
    CASE g = "F" -> 0 [] g = "D" -> 1 [] g = "C" -> 2 [] g = "B" -> 3
      [] g = "A" -> 4 [] g = "A+" -> 5 [] OTHER -> 0 - 1

\* C17: delta_to_grade is monotonic: for deltas d1 < d2 the grade of d1 is
\* never higher than the grade of d2 in the order F < D < C < B < A < A+, and
\* every delta gets one of these six letters.
C17_Monotonic ==
    pc = "scaled" =>
        /\ GradeRank(calls.g1) >= 0 /\ GradeRank(calls.g2) >= 0
        /\ GradeRank(calls.g1) <= GradeRank(calls.g2)

\* two deltas graded differently, the lower one just under the A threshold
C17_Witness ==
    /\ pc = "scaled"
    /\ calls.d1 = 39 /\ calls.g1 = "B"
    /\ calls.d2 = 40 /\ calls.g2 = "A"


\* ================================================ rewriting an artifact file
\* a JSON file: the list items its text holds so far, and whether the text is
\* a complete document
File(items, complete) == [items |-> items, complete |-> complete]

\* load_trade_csvs.main up to line 761: trades.json is on disk as it was read
\* and final_trades is computed
InitWrite ==
    /\ pc = "to_write"
    /\ csv_trades \in {c \in SeqsUpTo(CsvGroups, MaxCsv) : GroupsDistinct(c)}
    /\ trades_json \in SeqsUpTo(ExcelRawTrades, MaxExcel)
    /\ recon = reconcile(csv_trades,
                         InScope(parse_existing_trades(trades_json), csv_trades))
    /\ final_trades = Rebuild(csv_trades, trades_json, recon)
    /\ attribution = <<>>
    /\ disk = File(trades_json, TRUE)
    /\ calls = <<>> /\ combined = <<>>
    /\ pick_trades = <<>> /\ ledger = <<>> /\ picks_json = <<>>
    /\ scoring = <<>> /\ grader = None /\ trade_grades = <<>>

\* open(TRADES_PATH, "w") (line 763): the file at the artifact's path is truncated
OpenForWrite ==
    /\ pc = "to_write"
    /\ disk' = File(<<>>, FALSE)
    /\ pc' = "writing"
    /\ UNCHANGED <<trades_json, reconVars, pickVars, gradeVars, combined, calls>>

\* json.dump (line 764) writes the text of the next trade to the file
DumpItem ==
    /\ pc = "writing"
    /\ Len(disk.items) < Len(final_trades)
    /\ disk' = File(Append(disk.items, final_trades[Len(disk.items) + 1]), FALSE)
    /\ UNCHANGED <<pc, trades_json, reconVars, pickVars, gradeVars, combined, calls>>

\* json.dump writes the closing bracket and the with block closes the file
CloseFile ==
    /\ pc = "writing"
    /\ disk.items = final_trades
    /\ disk' = File(disk.items, TRUE)
    /\ pc' = "saved"
    /\ UNCHANGED <<trades_json, reconVars, pickVars, gradeVars, combined, calls>>

\* the script is interrupted, or json.dump raises, while the file is open
AbortWrite ==
    /\ pc = "writing"
    /\ pc' = "aborted"
    /\ UNCHANGED <<trades_json, reconVars, pickVars, gradeVars, combined, auxVars>>

NextWrite == OpenForWrite \/ DumpItem \/ CloseFile \/ AbortWrite

SpecWrite == InitWrite /\ [][NextWrite]_vars

\* C18: when a stage that rewrites an artifact has ended, the artifact's path
\* holds a complete document: the new content if the stage succeeded, and the
\* previous artifact, intact, if the stage aborted while writing.
C18_AtomicReplace ==
    /\ pc = "saved" => disk = File(final_trades, TRUE)
    /\ pc = "aborted" => disk = File(trades_json, TRUE)

\* ------------------------------------------------ the stages' alias tables
\* combine_trade_grades.OWNER_MAP (lines 43-55) and resolve_owner (71-81),
\* restricted to the model's abbreviations
CB_OWNER_MAP ==
    [a \in {"BADEN", "VLAD", "KELL", "GOLD", "BERK"} |->
        CASE a = "BADEN" -> "Baden"
          [] a = "VLAD"  -> "Baden"
          [] a = "KELL"  -> "Peterson"
          [] a = "GOLD"  -> "Gold"
          [] a = "BERK"  -> "Berke"]
CbResolveOwner(abbr) ==
    IF TokUpper(abbr) \in DOMAIN CB_OWNER_MAP THEN CB_OWNER_MAP[TokUpper(abbr)]
    ELSE IF TokLower(abbr) \in DOMAIN OWNER_NAME_MAP THEN OWNER_NAME_MAP[TokLower(abbr)]
    ELSE abbr

\* the stages that resolve the owner prefix of a trade item
Stages == {"load_trade_csvs", "track_pick_outcomes", "compute_trade_windows",
           "grade_trades", "combine_trade_grades"}

\* the first word of a trade item: the abbreviations of the tables above and
\* a word no table holds
Aliases == {"BADEN", "VLAD", "KELL", "GOLD", "BERK", "XXXX"}

\* the owner a stage's table gives the item "<alias> <player>"; None when the
\* stage does not accept the alias
StageOwner(stage, alias) ==
    LET items == <<PlayerItem(alias, NameA)>>
        only(S) == IF S \subseteq CANONICAL_OWNERS /\ Cardinality(S) = 1
                   THEN CHOOSE o \in S : TRUE ELSE None
    IN  CASE stage = "load_trade_csvs"       -> FirstOwner(items)
          [] stage = "track_pick_outcomes"   -> only(SideOwners(items))
          [] stage = "compute_trade_windows" ->
                IF SideOwner(items) = "Unknown" THEN None ELSE SideOwner(items)
          [] stage = "grade_trades"          -> only(GtOwners(items))
          [] stage = "combine_trade_grades"  -> only({CbResolveOwner(alias)})

InitAlias ==
    /\ pc = "to_resolve"
    /\ calls \in {[alias |-> a, done |-> {}, owner |-> [s \in Stages |-> None]] :
                    a \in Aliases}
    /\ disk = <<>>
    /\ trades_json = <<>> /\ combined = <<>>
    /\ csv_trades = <<>> /\ recon = NoRecon /\ final_trades = <<>> /\ attribution = <<>>
    /\ pick_trades = <<>> /\ ledger = <<>> /\ picks_json = <<>>
    /\ scoring = <<>> /\ grader = None /\ trade_grades = <<>>

\* one stage of the pipeline runs and resolves the item's prefix with its table
ResolveIn(stage) ==
    /\ pc = "to_resolve"
    /\ stage \notin calls.done
    /\ calls' = [calls EXCEPT !.done = @ \cup {stage},
                              !.owner[stage] = StageOwner(stage, calls.alias)]
    /\ pc' = IF calls'.done = Stages THEN "resolved" ELSE "to_resolve"
    /\ UNCHANGED <<trades_json, reconVars, pickVars, gradeVars, combined, disk>>

ResolveReconcile == ResolveIn("load_trade_csvs")
ResolveTracker   == ResolveIn("track_pick_outcomes")
ResolveWindows   == ResolveIn("compute_trade_windows")
ResolveGrader    == ResolveIn("grade_trades")
ResolveCombiner  == ResolveIn("combine_trade_grades")

NextAlias ==
    \/ ResolveReconcile
    \/ ResolveTracker
    \/ ResolveWindows
    \/ ResolveGrader
    \/ ResolveCombiner

SpecAlias == InitAlias /\ [][NextAlias]_vars

\* C19: every accepted owner abbreviation resolves to the same canonical owner
\* in the alias table of every stage that accepts it.
C19_AliasUnambiguous ==
    pc = "resolved" =>
        \A s1 \in Stages, s2 \in Stages :
            (calls.owner[s1] # None /\ calls.owner[s2] # None)
                => calls.owner[s1] = calls.owner[s2]

\* the stages agree on an alias all of them accept (what C19 says of every alias)
C19_AgreedAlias ==
    /\ pc = "resolved"
    /\ calls.alias = "VLAD"
    /\ calls.owner["load_trade_csvs"] = "Baden"
    /\ calls.owner["track_pick_outcomes"] = "Baden"

\* ------------------------------------------- reconcile over several groups
MaxGroups == 2      \* bundle groups read from the CSV files
MaxBackbone == 2    \* backbone trades of trades.json

\* groups of two seasons and two owner pairs, with and without players
MatchDates == {20221101, 20231017, 20231101}
MatchGroups ==
    {CsvGroup(d, "Baden", ob, ap, bp, IF ap = <<>> THEN <<"Draft Pick">> ELSE <<>>, <<>>) :
        d \in MatchDates,
        ob \in {"Gold", "Berke"},
        ap \in {<<>>, <<NameA>>},
        bp \in {<<>>, <<NameC>>}}

MatchBackbone ==
    {TradeEntry(season, NoDate,
                IF gp = <<>> THEN <<PickItem("BADEN", "Baden", 2025, 1, FALSE)>>
                ELSE Prefixed("BADEN", gp),
                IF tp = <<>> THEN <<PickItem(ob, "Gold", 2026, 2, FALSE)>>
                ELSE Prefixed(ob, tp),
                FALSE, FALSE, None) :
        season \in {"2022-23", "2023-24"},
        ob \in {"GOLD", "BERK"},
        gp \in {<<>>, <<NameA2>>},
        tp \in {<<>>, <<NameC>>}}

InitMatch ==
    /\ pc = "start"
    /\ csv_trades \in {c \in SeqsUpTo(MatchGroups, MaxGroups) : GroupsDistinct(c)}
    /\ trades_json \in SeqsUpTo(MatchBackbone, MaxBackbone)
    /\ recon = NoRecon
    /\ final_trades = <<>>
    /\ attribution = <<>>
    /\ pick_trades = <<>> /\ ledger = <<>> /\ picks_json = <<>>
    /\ scoring = <<>> /\ grader = None /\ trade_grades = <<>>
    /\ combined = <<>>
    /\ calls = <<>> /\ disk = <<>>

SpecMatch == InitMatch /\ [][NextReconcile]_vars

\* the backbone trades reconcile is called with
BackboneTrades == InScope(parse_existing_trades(trades_json), csv_trades)

\* how many players of a backbone trade have a fuzzy-matching player in a group
SharedPlayers(et, ct) ==
    LET eps == et.give_players \o et.get_players
        cps == ct.side_a_players \o ct.side_b_players
    IN  Cardinality({k \in DOMAIN eps : \E m \in DOMAIN cps : Fuzzy(eps[k], cps[m])})

\* a group of the trade's season and of its unordered owner pair
Candidate(et, ct) ==
    /\ ct.season = et.season
    /\ {ct.owner_a, ct.owner_b} = {et.owner_a, et.owner_b}

\* C20: reconcile matches a backbone trade to a group only if the group has the
\* trade's season and unordered owner pair and shares at least one fuzzy-matched
\* player with it; the group has the largest overlap among such groups; and
\* each backbone trade is matched to at most one group.
C20_BestCandidate ==
    pc \in {"reconciled", "written"} =>
        /\ \A k \in DOMAIN recon.matched :
            LET ct == csv_trades[recon.matched[k][1]]
                et == BackboneTrades[recon.matched[k][2]]
            IN  /\ Candidate(et, ct)
                /\ SharedPlayers(et, ct) >= 1
                /\ \A cj \in DOMAIN csv_trades :
                     Candidate(et, csv_trades[cj])
                        => SharedPlayers(et, csv_trades[cj]) <= SharedPlayers(et, ct)
        /\ \A k, n \in DOMAIN recon.matched :
            recon.matched[k][2] = recon.matched[n][2] => k = n

\* a trade is matched to the second of two candidate groups because it shares
\* two players with it and one with the first
C20_Witness ==
    /\ pc = "reconciled"
    /\ \E k \in DOMAIN recon.matched :
        LET et == BackboneTrades[recon.matched[k][2]]
        IN  /\ recon.matched[k][1] = 2
            /\ Candidate(et, csv_trades[1])
            /\ SharedPlayers(et, csv_trades[1]) = 1
            /\ SharedPlayers(et, csv_trades[2]) = 2

\* the groups of a backbone trade's season and owner pair that share the most
\* players with it (at least one)
BestCandidates(et) ==
    LET cands == {cj \in DOMAIN csv_trades :
                    Candidate(et, csv_trades[cj])
                    /\ SharedPlayers(et, csv_trades[cj]) >= 1}
    IN  {cj \in cands :
            \A cn \in cands :
                SharedPlayers(et, csv_trades[cn]) <= SharedPlayers(et, csv_trades[cj])}

\* the group holds the trade's players and no other player
ExactMatch(et, ct) ==
    LET eps == et.give_players \o et.get_players
        cps == ct.side_a_players \o ct.side_b_players
    IN  /\ \A k \in DOMAIN eps : \E m \in DOMAIN cps : Fuzzy(eps[k], cps[m])
        /\ \A m \in DOMAIN cps : \E k \in DOMAIN eps : Fuzzy(eps[k], cps[m])

\* the groups reconcile matched a backbone trade to
MatchedTo(ei) ==
    {recon.matched[k][1] : k \in {n \in DOMAIN recon.matched : recon.matched[n][2] = ei}}

\* C21: when two or more candidate groups tie on the overlap score of a
\* backbone trade, the trade is matched to the tied group that holds exactly
\* its player set if there is one, and is left unmatched otherwise.
C21_TieBreak ==
    pc \in {"reconciled", "written"} =>
        \A ei \in DOMAIN BackboneTrades :
            LET et == BackboneTrades[ei]
                tied == BestCandidates(et)
                exact == {cj \in tied : ExactMatch(et, csv_trades[cj])}
            IN  Cardinality(tied) >= 2 =>
                    IF exact # {} THEN MatchedTo(ei) # {} /\ MatchedTo(ei) \subseteq exact
                    ELSE MatchedTo(ei) = {}

\* the players of a group that match no player of any trade claiming the group
Unclaimed(ci) ==
    LET ct == csv_trades[ci]
        claimed(x) ==
            \E n \in DOMAIN recon.csv_used_for[ci] :
                LET et == ExcelInScope[recon.csv_used_for[ci][n]]
                IN  \E y \in Range(et.give_players \o et.get_players) : Fuzzy(y, x)
    IN  {x \in Range(ct.side_a_players \o ct.side_b_players) : ~claimed(x)}

\* the written trades built from a group (they carry its date)
BuiltFrom(ci) ==
    {i \in DOMAIN final_trades : final_trades[i].date = csv_trades[ci].date}

\* C22: when two or more backbone trades claim a bundle group, a player of the
\* group that matches none of them is in none of the output trades; a trade
\* holds such a player only when it is the group's sole claimant.
C22_UnclaimedLeftOut ==
    pc = "written" =>
        \A ci \in DOMAIN csv_trades :
            Len(recon.csv_used_for[ci]) >= 2 =>
                \A x \in Unclaimed(ci) :
                    \A i \in BuiltFrom(ci) :
                        x \notin Range(extract_players(final_trades[i].give
                                                       \o final_trades[i].get))

\* two trades claim a group that holds a player neither of them lists, and
\* both are written without that player
C22_Witness ==
    /\ pc = "written"
    /\ \E ci \in DOMAIN csv_trades :
        /\ Len(recon.csv_used_for[ci]) = 2
        /\ Unclaimed(ci) # {}
        /\ Cardinality(BuiltFrom(ci)) = 2
        /\ \A i \in BuiltFrom(ci) :
              Range(extract_players(final_trades[i].give \o final_trades[i].get))
                \cap Unclaimed(ci) = {}

\* the unordered owner pair of a written trade, read from its item prefixes
TradeOwners(t) == {OrUnknown(FirstOwner(t.give)), OrUnknown(FirstOwner(t.get))}

\* C23: a bundle group is written as a new trade only if none of its players
\* belongs, by fuzzy name match, to another written trade of the same season
\* and the same owner pair.
C23_NewTradeDisjoint ==
    pc = "written" =>
        \A ci \in recon.csv_unmatched :
            LET ct == csv_trades[ci]
            IN  ~CsvIsEmpty(ct) =>
                  \A j \in DOMAIN final_trades :
                    LET t == final_trades[j]
                    IN  (/\ t # CsvOnlyEntry(ct)
                         /\ t.season = ct.season
                         /\ TradeOwners(t) = {ct.owner_a, ct.owner_b})
                        => \A x \in Range(ct.side_a_players \o ct.side_b_players) :
                             \A y \in Range(extract_players(t.give \o t.get)) :
                                ~Fuzzy(x, y)

\* ------------------------------ track_pick_outcomes.py: steps 4 and 5 of main
\* PICK_GRADE_SCALE (lines 87-99): overall draft slot -> grade
PICK_GRADE_SCALE ==
    [slot \in 1..20 |->
        CASE slot \in {1, 2} -> "A+"
          [] slot \in {3, 4} -> "A"
          [] slot \in {5, 6} -> "B"
          [] slot \in {7, 8} -> "C"
          [] slot = 9 -> "D"
          [] slot = 10 -> "F"
          [] slot \in {11, 12} -> "C"
          [] slot \in {13, 14} -> "D"
          [] OTHER -> "F"]

\* PICK_GRADE_SCALE.get(overall, "F")
PickGradeOf(overall) ==
    IF overall \in DOMAIN PICK_GRADE_SCALE THEN PICK_GRADE_SCALE[overall] ELSE "F"

\* the league has 10 teams: a round has 10 picks and the standings 10 ranks
TeamCount == 10
\* team_to_rank.get(orig_owner, 5)
DefaultRank == 5
\* the last draft year the script takes as held (year > 2025 is a future pick)
LastDraftYear == 2025

\* build_draft_slot_maps (lines 233-244): one pick of getDraftResults
DraftSlot(rnd, pick_num, owner) ==
    [owner |-> owner, overall_slot |-> (rnd - 1) * TeamCount + pick_num,
     round |-> rnd, pick_number |-> pick_num]

\* a ledger entry before step 4
PickData(owner, year, rnd) ==
    [original_owner |-> owner, draft_year |-> year, round |-> rnd,
     status |-> "", overall_slot |-> 0, pick_grade |-> "", pick_gpa |-> NoNum,
     projected_overall |-> 0, projected_grade |-> "", projected_gpa |-> NoNum]

\* main, step 4 for one entry (lines 475-506); slot_maps holds, for each draft
\* year with a getDraftResults file, its picks in file order
MapPick(pick_data, slot_maps) ==
    LET year == pick_data.draft_year
    IN  IF year \notin DOMAIN slot_maps
        THEN [pick_data EXCEPT !.status =
                IF year > LastDraftYear THEN "pending" ELSE "no_draft_data"]
        ELSE LET slot_map == slot_maps[year]
                 hits == {k \in DOMAIN slot_map :
                            /\ slot_map[k].round = pick_data.round
                            /\ slot_map[k].owner = pick_data.original_owner}
             IN  IF hits # {}
                 THEN LET found_slot == slot_map[SetMin(hits)]
                          grade == PickGradeOf(found_slot.overall_slot)
                      IN  [pick_data EXCEPT !.status = "completed",
                                            !.overall_slot = found_slot.overall_slot,
                                            !.pick_grade = grade,
                                            !.pick_gpa = GRADE_GPA(grade)]
                 ELSE [pick_data EXCEPT !.status =
                         IF year > LastDraftYear THEN "pending" ELSE "unresolved"]

\* main, step 5 for one entry (lines 527-549)
ProjectPick(pick_data, team_to_rank) ==
    IF pick_data.status \notin {"pending", "no_draft_data"} THEN pick_data
    ELSE IF pick_data.draft_year <= LastDraftYear THEN pick_data
    ELSE LET orig_rank == IF pick_data.original_owner \in DOMAIN team_to_rank
                          THEN team_to_rank[pick_data.original_owner]
                          ELSE DefaultRank
             pick_slot == TeamCount + 1 - orig_rank
             overall == (pick_data.round - 1) * TeamCount + pick_slot
             grade == PickGradeOf(overall)
         IN  [pick_data EXCEPT !.status = "projected",
                               !.projected_overall = overall,
                               !.projected_grade = grade,
                               !.projected_gpa = GRADE_GPA(grade)]

\* inputs: Baden's and Gold's pick of one year and round each; the 2025 draft,
\* when its file exists, with one pick made by each of the two owners; the
\* latest standings, which may miss an owner
DraftLedgers ==
    {[id \in {PickId("Baden", ya, ra), PickId("Gold", yb, rb)} |->
         PickData(id[1], id[2], id[3])] :
        ya \in {2025, 2026}, ra \in 1..2, yb \in {2025, 2026}, rb \in 1..2}

DraftResults ==
    {<<DraftSlot(r1, n1, "Baden"), DraftSlot(r2, n2, "Gold")>> :
        r1 \in 1..2, n1 \in 1..TeamCount, r2 \in 1..2, n2 \in 1..TeamCount}

DraftSlotMaps ==
    {<<>>} \cup {[y \in {LastDraftYear} |-> d] :
                    d \in {x \in DraftResults : x[1].overall_slot # x[2].overall_slot}}

Standings ==
    UNION {[os -> {1, 3, TeamCount}] : os \in SUBSET {"Baden", "Gold"}}

InitDraft ==
    /\ pc = "to_map"
    /\ ledger \in DraftLedgers
    /\ calls \in {[draft_slot_maps |-> d, team_to_rank |-> r] :
                    d \in DraftSlotMaps, r \in {x \in Standings :
                        \A o1, o2 \in DOMAIN x : o1 # o2 => x[o1] # x[o2]}}
    /\ disk = <<>>
    /\ trades_json = <<>> /\ combined = <<>>
    /\ csv_trades = <<>> /\ recon = NoRecon /\ final_trades = <<>> /\ attribution = <<>>
    /\ pick_trades = <<>> /\ picks_json = <<>>
    /\ scoring = <<>> /\ grader = None /\ trade_grades = <<>>

\* main, step 4 (lines 475-506)
MapDraftSlots ==
    /\ pc = "to_map"
    /\ ledger' = [id \in DOMAIN ledger |-> MapPick(ledger[id], calls.draft_slot_maps)]
    /\ pc' = "mapped"
    /\ UNCHANGED <<trades_json, reconVars, pick_trades, picks_json, gradeVars, combined,
                   auxVars>>

\* main, step 5 (lines 527-549)
ProjectFuturePicks ==
    /\ pc = "mapped"
    /\ ledger' = [id \in DOMAIN ledger |-> ProjectPick(ledger[id], calls.team_to_rank)]
    /\ pc' = "projected"
    /\ UNCHANGED <<trades_json, reconVars, pick_trades, picks_json, gradeVars, combined,
                   auxVars>>

NextDraft == MapDraftSlots \/ ProjectFuturePicks

SpecDraft == InitDraft /\ [][NextDraft]_vars

\* C24: the grade of a drafted pick is monotonic in its overall slot
\* (round - 1) * 10 + pick_number over the slots 1..20: of two graded picks the
\* one with the smaller slot never has the lower grade, so no round-2 slot is
\* graded higher than a round-1 slot.
C24_SlotMonotonic ==
    pc \in {"mapped", "projected"} =>
        \A p, q \in DOMAIN ledger :
            (/\ ledger[p].status = "completed" /\ ledger[q].status = "completed"
             /\ ledger[p].overall_slot < ledger[q].overall_slot)
                => GradeRank(ledger[p].pick_grade) >= GradeRank(ledger[q].pick_grade)

\* the draft picks of a year's getDraftResults that an owner made in a round
DraftedBy(year, owner, rnd) ==
    IF year \notin DOMAIN calls.draft_slot_maps THEN {}
    ELSE {d \in Range(calls.draft_slot_maps[year]) : d.owner = owner /\ d.round = rnd}

\* C25: an entry is "completed" only if draft results exist for its draft
\* year, and every grade of an entry comes from an actual draft slot of the
\* original owner (completed) or from the original owner's actual standings
\* rank (projected), never from a default slot, rank or letter.
C25_NoDefaults ==
    pc = "projected" =>
        \A id \in DOMAIN ledger :
            LET e == ledger[id]
            IN  /\ e.status = "completed" =>
                    /\ e.draft_year \in DOMAIN calls.draft_slot_maps
                    /\ \E d \in DraftedBy(e.draft_year, e.original_owner, e.round) :
                          /\ e.overall_slot = d.overall_slot
                          /\ e.overall_slot \in DOMAIN PICK_GRADE_SCALE
                          /\ e.pick_grade = PICK_GRADE_SCALE[e.overall_slot]
                /\ e.pick_grade # "" => e.status = "completed"
                /\ e.projected_grade # "" =>
                    /\ e.original_owner \in DOMAIN calls.team_to_rank
                    /\ e.projected_overall = (e.round - 1) * TeamCount + TeamCount + 1
                                               - calls.team_to_rank[e.original_owner]
                    /\ e.projected_overall \in DOMAIN PICK_GRADE_SCALE
                    /\ e.projected_grade = PICK_GRADE_SCALE[e.projected_overall]

\* ------------------------------------- rebuild_trade_players.py: fuzzy_match
NameF == <<"a", "b", "c", "d", "f">>              \* as close to NameA as NameB is
NameV == <<"w", "x", "y", "v">>                   \* a misspelling of NameC
NameCPos == <<"C", " ", "w", "x", "y", "z">>      \* NameC behind a position prefix
NameVPos == <<"C", " ", "w", "x", "y", "v">>      \* NameV behind a position prefix

\* strip_position_prefix (lines 171-173); "C" is the position of the model
strip_position_prefix(name) ==
    IF Len(name) >= 2 /\ name[1] = "C" /\ name[2] = " "
    THEN Strip(SubSeq(name, 3, Len(name)))
    ELSE name

\* the suffixes of rebuild_trade_players.normalize: \s+(jr\.?|sr\.?|iii?|iv)$
RtpSuffixes == << <<" ", "j", "r", ".">>, <<" ", "j", "r">>, <<" ", "s", "r", ".">>,
                  <<" ", "s", "r">>, <<" ", "i", "i", "i">>, <<" ", "i", "i">>,
                  <<" ", "i", "v">> >>

\* rebuild_trade_players.normalize (lines 101-108): lower-case, strip blanks,
\* remove one trailing suffix with the blanks before it
RtpNormalize(name) ==
    LET low == Strip([k \in DOMAIN name |-> Lower(name[k])])
        hits == {k \in DOMAIN RtpSuffixes : EndsWith(low, RtpSuffixes[k])}
    IN  IF hits = {} THEN low
        ELSE Strip(SubSeq(low, 1, Len(low) - Len(RtpSuffixes[SetMin(hits)])))

\* NAME_OVERRIDES (lines 47-95) over the model's names: a misspelling and the
\* spelling it is replaced with
NAME_OVERRIDES == (NameV :> NameC)

\* SequenceMatcher(None, a, b).ratio() as the fraction <<2 * M, T>>
Ratio(a, b) ==
    IF Len(a) + Len(b) = 0 THEN <<1, 1>>
    ELSE <<2 * MatchingCount(a, 1, Len(a), b, 1, Len(b)), Len(a) + Len(b)>>
ScoreGt(x, y) == x[1] * y[2] > y[1] * x[2]
ScoreGeq(x, y) == x[1] * y[2] >= y[1] * x[2]

\* threshold=0.85
MatchThreshold == <<85, 100>>

\* build_canonical_player_set (lines 111-125): the roster names in file order,
\* the first name of each normalized key being the canonical one
RECURSIVE CanonicalPlayers(_)
CanonicalPlayers(roster) ==
    IF roster = <<>> THEN <<>>
    ELSE LET before == CanonicalPlayers(SubSeq(roster, 1, Len(roster) - 1))
             p == roster[Len(roster)]
         IN  IF \E k \in DOMAIN before : before[k].norm = RtpNormalize(p) THEN before
             ELSE Append(before, [norm |-> RtpNormalize(p), name |-> p])

\* fuzzy_match, the scan over canonical_players.items() (lines 195-200)
RECURSIVE BestCanonical(_, _, _, _)
BestCanonical(norm, canonical_players, k, best) ==
    IF k > Len(canonical_players) THEN best
    ELSE LET score == Ratio(norm, canonical_players[k].norm)
         IN  IF ScoreGt(score, best.score)
             THEN BestCanonical(norm, canonical_players, k + 1,
                                [match |-> canonical_players[k].name, score |-> score])
             ELSE BestCanonical(norm, canonical_players, k + 1, best)

\* fuzzy_match returning the best-scoring player below the threshold too
fuzzy_match_NoThreshold(raw, canonical_players) ==
    LET name == strip_position_prefix(raw)
        norm == RtpNormalize(name)
        direct == {k \in DOMAIN canonical_players : canonical_players[k].norm = norm}
        best == BestCanonical(norm, canonical_players, 1,
                              [match |-> None, score |-> <<0, 1>>])
    IN  IF name \in DOMAIN NAME_OVERRIDES
        THEN LET override == NAME_OVERRIDES[name]
                 on == {k \in DOMAIN canonical_players :
                          canonical_players[k].norm = RtpNormalize(override)}
             IN  IF on # {}
                 THEN [name |-> canonical_players[SetMin(on)].name, score |-> <<1, 1>>]
                 ELSE [name |-> override, score |-> <<95, 100>>]
        ELSE IF direct # {}
        THEN [name |-> canonical_players[SetMin(direct)].name, score |-> <<1, 1>>]
        ELSE IF best.match # None
        THEN [name |-> best.match, score |-> best.score]
        ELSE [name |-> name, score |-> best.score]
\* rebuild_trade_players.fuzzy_match (lines 176-205)
fuzzy_match(raw, canonical_players) ==
    LET name == strip_position_prefix(raw)
        norm == RtpNormalize(name)
        direct == {k \in DOMAIN canonical_players : canonical_players[k].norm = norm}
        best == BestCanonical(norm, canonical_players, 1,
                              [match |-> None, score |-> <<0, 1>>])
    IN  IF name \in DOMAIN NAME_OVERRIDES
        THEN LET override == NAME_OVERRIDES[name]
                 on == {k \in DOMAIN canonical_players :
                          canonical_players[k].norm = RtpNormalize(override)}
             IN  IF on # {}
                 THEN [name |-> canonical_players[SetMin(on)].name, score |-> <<1, 1>>]
                 ELSE [name |-> override, score |-> <<95, 100>>]
        ELSE IF direct # {}
        THEN [name |-> canonical_players[SetMin(direct)].name, score |-> <<1, 1>>]
        ELSE IF ScoreGeq(best.score, MatchThreshold)
        THEN [name |-> best.match, score |-> best.score]
        ELSE [name |-> name, score |-> best.score]

\* inputs: a trade asset name and the roster files' player names
MaxRoster == 2
ResolveNames == {NameA, NameA2, NameB, NameC, NameV, NameCPos, NameVPos}
RosterNames == {NameA, NameB, NameF, NameC}

InitResolve ==
    /\ pc = "to_match"
    /\ calls \in {[name |-> n, roster |-> r, result |-> None] :
                    n \in ResolveNames,
                    r \in {x \in SeqsUpTo(RosterNames, MaxRoster) :
                             \A i, j \in DOMAIN x : i # j => x[i] # x[j]}}
    /\ disk = <<>>
    /\ trades_json = <<>> /\ combined = <<>>
    /\ csv_trades = <<>> /\ recon = NoRecon /\ final_trades = <<>> /\ attribution = <<>>
    /\ pick_trades = <<>> /\ ledger = <<>> /\ picks_json = <<>>
    /\ scoring = <<>> /\ grader = None /\ trade_grades = <<>>

\* main, line 246: matched_name, score = fuzzy_match(asset, canonical_players)
FuzzyMatchAsset ==
    /\ pc = "to_match"
    /\ calls' = [calls EXCEPT
                   !.result = fuzzy_match(calls.name, CanonicalPlayers(calls.roster))]
    /\ pc' = "matched"
    /\ UNCHANGED <<trades_json, reconVars, pickVars, gradeVars, combined, disk>>

NextResolve == FuzzyMatchAsset

SpecResolve == InitResolve /\ [][NextResolve]_vars

\* the canonical entries with the highest similarity to the resolved name
TopCanonical ==
    LET canon == CanonicalPlayers(calls.roster)
        n == RtpNormalize(strip_position_prefix(calls.name))
    IN  {k \in DOMAIN canon :
            \A j \in DOMAIN canon : ScoreGeq(Ratio(n, canon[k].norm), Ratio(n, canon[j].norm))}

\* the highest score reaches the threshold
TopReaches ==
    LET canon == CanonicalPlayers(calls.roster)
        n == RtpNormalize(strip_position_prefix(calls.name))
    IN  \E k \in TopCanonical : ScoreGeq(Ratio(n, canon[k].norm), MatchThreshold)

\* C26 (as stated): fuzzy_match returns the canonical player with the highest
\* score when that score reaches the threshold, the first registered on a
\* tie, and the input name unchanged when every score is below the threshold.
C26_Resolver ==
    pc = "matched" =>
        IF TopReaches
        THEN calls.result.name = CanonicalPlayers(calls.roster)[SetMin(TopCanonical)].name
        ELSE calls.result.name = calls.name

\* C26 (amended): the name is first stripped of its position prefix; a name
\* of the override table returns its override, in the roster's spelling when
\* the roster holds it; any other name returns the canonical player with the
\* highest score when that score reaches the threshold, the first registered
\* on a tie, and the stripped name when every score is below the threshold.
C26_ResolverWithOverrides ==
    pc = "matched" =>
        LET canon == CanonicalPlayers(calls.roster)
            name == strip_position_prefix(calls.name)
        IN  IF name \in DOMAIN NAME_OVERRIDES
            THEN \/ calls.result.name = NAME_OVERRIDES[name]
                 \/ \E k \in DOMAIN canon :
                       /\ canon[k].norm = RtpNormalize(NAME_OVERRIDES[name])
                       /\ calls.result.name = canon[k].name
            ELSE IF TopReaches
            THEN calls.result.name = canon[SetMin(TopCanonical)].name
            ELSE calls.result.name = name

\* two registered players tie for the highest score, above the threshold, and
\* the one registered first is returned
C26_Witness ==
    /\ pc = "matched"
    /\ Cardinality(TopCanonical) = 2
    /\ TopReaches
    /\ calls.name \notin Range(calls.roster)
    /\ calls.result.name = calls.roster[1]

\* C27: a side of the combined file has no combined_gpa exactly when its
\* combined_grade is INC: every side with a letter grade, F included, has a
\* numeric combined_gpa.
C27_GradedHasGpa ==
    pc = "combined" =>
        \A io \in CombinedSides :
            (io[2].combined_grade = "INC") <=> ~io[2].combined_gpa.some

\* C28: every player of a backbone trade that is matched to a bundle group is,
\* in the group's spelling, in the give or get list of the output trade built
\* for that backbone trade, also when the group holds only some of the
\* trade's players.
C28_NoPlayerLost ==
    pc = "written" =>
        \A k \in DOMAIN recon.matched :
            LET et == ExcelInScope[recon.matched[k][2]]
                t == MatchedEntry(csv_trades, ExcelInScope, recon.csv_used_for,
                                  recon.matched[k][1], recon.matched[k][2])
            IN  /\ t \in Range(final_trades)
                /\ \A y \in Range(et.give_players \o et.get_players) :
                      \E x \in Range(extract_players(t.give \o t.get)) : Fuzzy(y, x)

\* -------------------------------------- load_trade_csvs.main, run a second time
\* main again (lines 403-765): it reads the trades.json the first run wrote in
\* place and the same CSV files; disk keeps what the first run wrote
RunAgain ==
    /\ pc = "written"
    /\ disk' = File(final_trades, TRUE)
    /\ trades_json' = final_trades
    /\ \E r \in {reconcile(csv_trades,
                           InScope(parse_existing_trades(final_trades), csv_trades))} :
          /\ recon' = r
          /\ final_trades' = Rebuild(csv_trades, final_trades, r)
    /\ pc' = "rerun"
    /\ UNCHANGED <<csv_trades, attribution, pickVars, gradeVars, combined, calls>>

NextRerun == RunReconcile \/ RunRebuild \/ RunAgain

SpecRerun == InitReconcile /\ [][NextRerun]_vars

\* what the claim compares of a written trade
TradeView(t) ==
    <<t.season, t.date, t.give, t.get, t.fantrax_confirmed, t.needs_review>>

\* C29: the rebuild is a fixpoint: a second run of main on the trades.json the
\* first run wrote, with the same CSV files, writes a list with the same
\* (season, date, give, get) entries and the same confirmed and needs_review
\* flags.
C29_Fixpoint ==
    pc = "rerun" =>
        BagOf([k \in DOMAIN final_trades |-> TradeView(final_trades[k])])
            = BagOf([k \in DOMAIN disk.items |-> TradeView(disk.items[k])])


\* ================================ the three delta_to_grade implementations
\* combine_trade_grades.PLAYER_GRADE_SCALE (lines 33-40), in tenths
PLAYER_GRADE_SCALE == << <<80, "A+">>, <<40, "A">>, <<10, "B">>, <<-10, "C">>, <<-40, "D">> >>

\* combine_trade_grades.delta_to_grade (lines 100-105)
cb_delta_to_grade(delta) == ScaleGrade(PLAYER_GRADE_SCALE, delta)

\* one total delta, in tenths, not yet graded by any of the three scripts
InitGraders ==
    /\ pc = "to_grade"
    /\ calls \in {[delta |-> x, grade_trades |-> None, compute_trade_windows |-> None,
                   combine_trade_grades |-> None] : x \in (0 - MaxDelta)..MaxDelta}
    /\ disk = <<>>
    /\ trades_json = <<>> /\ combined = <<>>
    /\ csv_trades = <<>> /\ recon = NoRecon /\ final_trades = <<>> /\ attribution = <<>>
    /\ pick_trades = <<>> /\ ledger = <<>> /\ picks_json = <<>>
    /\ scoring = <<>> /\ grader = None /\ trade_grades = <<>>

\* grade_trades.delta_to_grade (lines 101-106) grades the delta
GradeByGradeTrades ==
    /\ pc = "to_grade" /\ calls.grade_trades = None
    /\ calls' = [calls EXCEPT !.grade_trades = gt_delta_to_grade(calls.delta)]
    /\ UNCHANGED <<pc, trades_json, reconVars, pickVars, gradeVars, combined, disk>>

\* compute_trade_windows.delta_to_grade (lines 72-76) grades the delta
GradeByTradeWindows ==
    /\ pc = "to_grade" /\ calls.compute_trade_windows = None
    /\ calls' = [calls EXCEPT !.compute_trade_windows = delta_to_grade(calls.delta)]
    /\ UNCHANGED <<pc, trades_json, reconVars, pickVars, gradeVars, combined, disk>>

\* combine_trade_grades.delta_to_grade (lines 100-105) grades the delta
GradeByCombiner ==
    /\ pc = "to_grade" /\ calls.combine_trade_grades = None
    /\ calls' = [calls EXCEPT !.combine_trade_grades = cb_delta_to_grade(calls.delta)]
    /\ UNCHANGED <<pc, trades_json, reconVars, pickVars, gradeVars, combined, disk>>

NextGraders == GradeByGradeTrades \/ GradeByTradeWindows \/ GradeByCombiner

SpecGraders == InitGraders /\ [][NextGraders]_vars

\* C30: the three implementations of delta_to_grade (grade_trades,
\* compute_trade_windows, combine_trade_grades) return the same letter for
\* every total delta.
C30_SameLetter ==
    (/\ pc = "to_grade"
     /\ calls.grade_trades # None
     /\ calls.compute_trade_windows # None
     /\ calls.combine_trade_grades # None)
        => /\ calls.grade_trades = calls.compute_trade_windows
           /\ calls.compute_trade_windows = calls.combine_trade_grades

====
